---------------------------- MODULE Spec2Model ----------------------------
(***************************************************************************)
(* Trellis ingress: the request handlers (HandleTraffic, HandlePixel,      *)
(* HandlePostback), the Warden authentication middleware, the Redis dedup  *)
(* check, the asynchronous Pub/Sub publisher and the routing engine.       *)
(*                                                                         *)
(* Strings the code takes apart or concatenates (organization ids,         *)
(* campaign ids, click ids, map keys, parameter values) are sequences of   *)
(* one-character strings, so that fmt.Sprintf, strings.HasPrefix and       *)
(* friends are computed, not assumed.                                      *)
(*                                                                         *)
(* The handler is the one NewHandler builds from live Pub/Sub, Redis and   *)
(* routing clients (main.go still passes nil placeholders for them).       *)
(***************************************************************************)
EXTENDS Integers, Sequences, FiniteSets, TLC

(***************************************************************************)
(* Bounds of the model.                                                    *)
(***************************************************************************)
\* number of concurrent HTTP requests
NReq == 2
\* how often the TTL of one dedup key may run out
MaxExpiry == 1

(***************************************************************************)
(* String helpers (package strings, fmt).                                  *)
(***************************************************************************)
Range(f) == {f[k] : k \in DOMAIN f}

\* a prefix test that accepts everything
HasPrefixAny(s, p) == TRUE

HasPrefix(s, p) == Len(p) <= Len(s) /\ SubSeq(s, 1, Len(p)) = p

TrimPrefix(s, p) == IF HasPrefix(s, p) THEN SubSeq(s, Len(p) + 1, Len(s)) ELSE s

Contains(s, sub) ==
    \E i \in 0..(Len(s) - Len(sub)) : SubSeq(s, i + 1, i + Len(sub)) = sub

LowerChar(c) ==
    CASE c = "A" -> "a"
      [] c = "B" -> "b"
      [] c = "U" -> "u"
      [] c = "S" -> "s"
      [] c = "X" -> "x"
      [] OTHER -> c

ToLower(s) == [i \in 1..Len(s) |-> LowerChar(s[i])]

\* fmt.Sprintf("%s/%s", a, b)
CampaignKey(a, b) == a \o <<"/">> \o b

\* fmt.Sprintf("click:%s:%s", organizationID, clickID)
DedupKey(organizationID, clickID) ==
    <<"click", ":">> \o organizationID \o <<":">> \o clickID

\* the order of the characters (and one-token words) of the ids
Alphabet == <<"/", ":", "a", "b", "c", "default", "e", "f", "g", "o", "v", "x", "y">>

CharRank(ch) == CHOOSE i \in DOMAIN Alphabet : Alphabet[i] = ch

\* s < t in the lexicographic order of strings
RECURSIVE LexLess(_, _)
LexLess(s, t) ==
    IF t = <<>> THEN FALSE
    ELSE IF s = <<>> THEN TRUE
    ELSE IF Head(s) # Head(t) THEN CharRank(Head(s)) < CharRank(Head(t))
    ELSE LexLess(Tail(s), Tail(t))

\* uuid.New().String(): a string no other call returns
Digits == <<"1", "2", "3", "4">>
Uuid(tag, r) == <<tag, Digits[r]>>

(***************************************************************************)
(* Values.                                                                 *)
(***************************************************************************)
FallbackURL == "https://example.com/"

\* organization ids the identity service hands out
OrgA == <<"a">>
OrgAB == <<"a", ":", "b">>
OrgEmpty == <<>>
OrgSlash == <<"a", "/", "b">>


(***************************************************************************)
(* Routing engine: pure part.                                              *)
(***************************************************************************)
\* the campaign id "default" (one token: no code looks inside it)
DefaultId == <<"default">>

\* a nil *Campaign
NilCampaign ==
    [org |-> <<>>, id |-> <<>>, status |-> "nil", rules |-> <<>>,
     dest |-> [base |-> "", query |-> <<>>], append |-> FALSE]

\* the key under which loadCampaigns / CreateCampaign / UpdateCampaign store c
KeyOf(c) == CampaignKey(c.org, c.id)

\* a map[string]*Campaign holding the campaigns of cs, later ones overwriting
\* earlier ones with the same key (cs is a sequence of rows)
RECURSIVE MapOfRows(_)
MapOfRows(cs) ==
    IF cs = <<>> THEN <<>>
    ELSE LET m == MapOfRows(SubSeq(cs, 1, Len(cs) - 1))
             c == cs[Len(cs)]
         IN  [k \in (DOMAIN m) \cup {KeyOf(c)} |-> IF k = KeyOf(c) THEN c ELSE m[k]]

\* a flatParams that keeps the last value of every parameter
FlatParamsLast(params) ==
    [k \in {n \in DOMAIN params : Len(params[n]) > 0} |-> params[k][Len(params[k])]]

\* flatParams of findBestMatch: the first value of every parameter that has one
FlatParams(params) ==
    [k \in {n \in DOMAIN params : Len(params[n]) > 0} |-> params[k][1]]

\* ruleMatches comparing "contains" with regard to case
ruleMatchesCaseSensitive(rule, flat) ==
    /\ rule.field \in DOMAIN flat
    /\ rule.op \in {"equals", "contains", "in", "prefix"}
    /\ \E i \in 1..Len(rule.values) :
          IF rule.op = "contains" THEN Contains(flat[rule.field], rule.values[i])
          ELSE IF rule.op = "prefix" THEN HasPrefix(flat[rule.field], rule.values[i])
          ELSE flat[rule.field] = rule.values[i]

ruleMatches(rule, flat) ==
    IF rule.field \notin DOMAIN flat THEN FALSE
    ELSE LET paramValue == flat[rule.field]
         IN  CASE rule.op = "equals" ->
                    \E i \in 1..Len(rule.values) : paramValue = rule.values[i]
               [] rule.op = "contains" ->
                    \E i \in 1..Len(rule.values) :
                        Contains(ToLower(paramValue), ToLower(rule.values[i]))
               [] rule.op = "in" ->
                    \E i \in 1..Len(rule.values) : paramValue = rule.values[i]
               [] rule.op = "prefix" ->
                    \E i \in 1..Len(rule.values) : HasPrefix(paramValue, rule.values[i])
               [] OTHER -> FALSE

RECURSIVE ScoreFrom(_, _, _)
ScoreFrom(rules, i, flat) ==
    IF i > Len(rules) THEN 0
    ELSE (IF ruleMatches(rules[i], flat) THEN rules[i].priority ELSE 0)
         + ScoreFrom(rules, i + 1, flat)

calculateMatchScore(campaign, flat) == ScoreFrom(campaign.rules, 1, flat)

\* the orders in which a range over the map may visit its keys
Orders(S) == {o \in [1..Cardinality(S) -> S] : \A i, j \in DOMAIN o : o[i] = o[j] => i = j}

\* the loop of findBestMatch, visiting the keys in the given order
RECURSIVE BestFrom(_, _, _, _, _, _, _)
BestFrom(order, i, organizationID, flat, camps, bestMatch, bestScore) ==
    IF i > Len(order) THEN bestMatch
    ELSE LET key == order[i]
             campaign == camps[key]
             skip == \/ ~HasPrefix(key, organizationID \o <<"/">>)
                     \/ campaign.status # "active"
             score == calculateMatchScore(campaign, flat)
         IN  IF ~skip /\ score > bestScore
             THEN BestFrom(order, i + 1, organizationID, flat, camps, campaign, score)
             ELSE BestFrom(order, i + 1, organizationID, flat, camps, bestMatch, bestScore)

findBestMatch(organizationID, params, camps, order) ==
    BestFrom(order, 1, organizationID, FlatParams(params), camps, NilCampaign, 0)

getCampaign(key, camps) == IF key \in DOMAIN camps THEN camps[key] ELSE NilCampaign

\* names of query parameters, in the order url.Values.Encode sorts them
ParamNames == <<"cid", "click_id", "clickid", "src", "tid", "transaction_id">>

\* url.Values as a function name -> sequence of values; Encode as the sequence
\* of <<name, value>> pairs, names sorted, values in their order
RECURSIVE EncodeFrom(_, _)
EncodeFrom(q, i) ==
    IF i > Len(ParamNames) THEN <<>>
    ELSE LET n == ParamNames[i]
         IN  (IF n \in DOMAIN q THEN [j \in 1..Len(q[n]) |-> <<n, q[n][j]>>] ELSE <<>>)
             \o EncodeFrom(q, i + 1)

Encode(q) == EncodeFrom(q, 1)

\* url.URL.Query(): the raw query (a sequence of pairs) as url.Values
ParseQuery(raw) ==
    [n \in {raw[i][1] : i \in DOMAIN raw} |->
        LET idx == {i \in DOMAIN raw : raw[i][1] = n}
            F[k \in 0..Len(raw)] ==
                IF k = 0 THEN <<>>
                ELSE IF k \in idx THEN Append(F[k - 1], raw[k][2]) ELSE F[k - 1]
        IN  F[Len(raw)]]

\* a destination_url that url.Parse rejects
BadURL == "://missing-scheme"

UrlParseFails(dest) == dest.base = BadURL

buildDestinationURL(campaign, params) ==
    IF ~campaign.append \/ DOMAIN params = {}
    THEN campaign.dest
    ELSE IF UrlParseFails(campaign.dest)
    THEN campaign.dest
    ELSE LET old == ParseQuery(campaign.dest.query)
             query == [n \in (DOMAIN old) \cup (DOMAIN params) |->
                         (IF n \in DOMAIN old THEN old[n] ELSE <<>>)
                         \o (IF n \in DOMAIN params THEN params[n] ELSE <<>>)]
         IN  [base |-> campaign.dest.base, query |-> Encode(query)]

\* the campaign GetDestination builds its result from (NilCampaign: the
\* hard-coded fallback)
DestinationCampaign(organizationID, campaignID, params, camps, order) ==
    LET explicit == IF campaignID # <<>>
                    THEN getCampaign(CampaignKey(organizationID, campaignID), camps)
                    ELSE NilCampaign
        best == findBestMatch(organizationID, params, camps, order)
        def == getCampaign(CampaignKey(organizationID, DefaultId), camps)
    IN  IF explicit # NilCampaign /\ explicit.status = "active" THEN explicit
        ELSE IF best # NilCampaign THEN best
        ELSE def

GetDestination(organizationID, campaignID, params, camps, order) ==
    LET c == DestinationCampaign(organizationID, campaignID, params, camps, order)
    IN  IF c # NilCampaign THEN buildDestinationURL(c, params)
        ELSE [base |-> FallbackURL, query |-> <<>>]

(***************************************************************************)
(* The requests, the identity service and the stores.                      *)
(***************************************************************************)
Reqs == 1..NReq

Routes == {"/in", "/in/{campaign_id}", "/pixel.gif", "/postback"}

\* Authorization headers, as sequences of tokens
AuthHeaders ==
    { <<>>,
      <<"Basic ", "wdn_", "k2">>,
      <<"Bearer ", "sk_", "k2">>,
      <<"Bearer ", "wdn_", "k0">>,
      <<"Bearer ", "wdn_", "k1">>,
      <<"Bearer ", "wdn_", "k2">>,
      <<"Bearer ", "wdn_", "k3">> }

\* the organizations Warden knows for the account of an API key
WardenOrgs(apiKey) ==
    CASE apiKey = <<"wdn_", "k1">> -> <<>>
      [] apiKey = <<"wdn_", "k2">> -> <<OrgA>>
      [] apiKey = <<"wdn_", "k3">> -> <<OrgEmpty>>
      [] OTHER -> <<>>

\* what authClient.ValidateApiKey may answer: an error (unknown key, or the
\* service unreachable / timed out) or the account
ValidateApiKeyResponses(apiKey) ==
    {[err |-> TRUE, account |-> <<>>]}
    \cup (IF apiKey = <<"wdn_", "k0">> THEN {} ELSE {[err |-> FALSE, account |-> apiKey]})

\* what orgClient.GetAccountOrganizations may answer
GetAccountOrganizationsResponses(account) ==
    {[err |-> TRUE, orgs |-> <<>>], [err |-> FALSE, orgs |-> WardenOrgs(account)]}

\* request contexts: no value under OrganizationContextKey, a nil
\* *OrganizationContext, or a context of an organization
AbsentCtx == [kind |-> "absent", org |-> <<>>]
NilCtx == [kind |-> "nil", org |-> <<>>]
OrgCtx(o) == [kind |-> "ok", org |-> o]

\* validateAPIKey, given the two answers of Warden: (ctx, err)
validateAPIKey(validateResp, orgResp) ==
    IF validateResp.err THEN [ctx |-> NilCtx, err |-> TRUE]
    ELSE IF orgResp.err THEN [ctx |-> NilCtx, err |-> TRUE]
    ELSE IF Len(orgResp.orgs) = 0 THEN [ctx |-> NilCtx, err |-> FALSE]
    ELSE [ctx |-> OrgCtx(orgResp.orgs[1]), err |-> FALSE]

\* GetOrganizationContext: the type assertion succeeds for every stored
\* *OrganizationContext, nil or not
GetOrganizationContextOk(c) == c.kind # "absent"

\* query strings of the requests
QueryParams ==
    { <<>>,
      [n \in {"click_id"} |-> << <<"x">> >>] }

\* r.URL.Query().Get(name)
Get(params, name) ==
    IF name \in DOMAIN params /\ Len(params[name]) > 0 THEN params[name][1] ELSE <<>>

\* the same names with the last one tried first
ClickParamsTidFirst == <<"tid", "click_id", "clickid", "cid", "transaction_id">>

ClickParams == <<"click_id", "clickid", "cid", "transaction_id", "tid">>

RECURSIVE ExtractFrom(_, _, _)
ExtractFrom(params, i, minted) ==
    IF i > Len(ClickParams) THEN minted
    ELSE IF Get(params, ClickParams[i]) # <<>> THEN Get(params, ClickParams[i])
    ELSE ExtractFrom(params, i + 1, minted)

\* extractClickID; minted is the uuid it would generate
extractClickID(params, minted) == ExtractFrom(params, 1, minted)

\* chi.URLParam(r, "campaign_id") for a request of the route
PathCampaigns(route) == IF route = "/in/{campaign_id}" THEN {<<"summer">>} ELSE {<<>>}

\* the requests that may arrive: through the router of main (middleware
\* first), or handed to the handler directly with a bare context
Inputs ==
    {i \in [route : Routes, direct : BOOLEAN, auth : AuthHeaders, params : QueryParams,
            campaign_id : {<<>>, <<"summer">>}] :
        /\ i.campaign_id \in PathCampaigns(i.route)
        /\ i.direct => i.auth = <<>>}

NoInput ==
    [route |-> "", direct |-> FALSE, auth |-> <<>>, params |-> <<>>,
     campaign_id |-> <<>>]

NoEvent ==
    [made |-> FALSE, id |-> <<>>, org |-> <<>>, click |-> <<>>, campaign |-> <<>>,
     flags |-> <<>>, hasBody |-> FALSE, attrCampaign |-> FALSE]

\* a response; via is the campaign the Location of a redirect was built from
NoResp ==
    [status |-> 0, location |-> [base |-> "", query |-> <<>>], pixel |-> FALSE,
     via |-> NilCampaign]

\* a call of RoutingEngine.GetDestination: where it is, its arguments, the
\* maps its lookups have read under the lock so far, and (called) what it
\* returned
NoLookup ==
    [called |-> FALSE, pc |-> "idle", org |-> <<>>, campaignID |-> <<>>,
     params |-> <<>>, reads |-> <<>>,
     via |-> NilCampaign, dest |-> [base |-> "", query |-> <<>>]]

\* the latest call of CreateCampaign / UpdateCampaign / DeleteCampaign: where
\* it is, what it returned, the number of calls so far and, while the call
\* runs, the organization of its ctx and its payload
NoAdmin ==
    [pc |-> "idle", op |-> "", caller |-> <<>>, campaign |-> NilCampaign,
     err |-> FALSE, result |-> "", n |-> 0]

\* a run of loadCampaigns: where it is, the local map it has built, whether
\* anything failed on the way, and the number of runs so far
NoLoad == [pc |-> "idle", built |-> <<>>, failed |-> FALSE, n |-> 0]

NoDedup == [called |-> FALSE, key |-> <<>>, window |-> 0, err |-> FALSE, dup |-> FALSE]

NoPub == [pc |-> "none", data |-> NoEvent, result |-> "none"]

\* the snapshot the routing engine starts the requests with
SummerCampaign ==
    [org |-> OrgA, id |-> <<"summer">>, status |-> "active",
     rules |-> << [field |-> "click_id", op |-> "prefix", values |-> << <<"x">> >>,
                   priority |-> 10] >>,
     dest |-> [base |-> "https://shop.example.com/s", query |-> <<>>],
     append |-> TRUE]

DefaultCampaign ==
    [org |-> OrgA, id |-> DefaultId, status |-> "active", rules |-> <<>>,
     dest |-> [base |-> "https://a.example.com/", query |-> <<>>],
     append |-> FALSE]

InitialSnapshot == MapOfRows(<<DefaultCampaign, SummerCampaign>>)

VARIABLES campaigns, redis, sink, dlq, req, pc, ctx, nextCalled, rpcs,
          event, dedup, pub, resp, lookup, table, admin, load,
          eventQueue, retries, failureLog, batch, answers, env, config,
          server, probe

vars == <<campaigns, redis, sink, dlq, req, pc, ctx, nextCalled, rpcs,
          event, dedup, pub, resp, lookup, table, admin, load,
          eventQueue, retries, failureLog, batch, answers, env, config,
          server, probe>>

\* the campaign table, the admin call and the load cycle of the routing engine
engine == <<table, admin, load>>

\* the asynchronous pipeline of the architecture: the channel of the
\* AsyncProcessor, the retry counts, the failure log and the batch in hand of
\* the DeadLetterQueue, the answers of the handler that submits to it
pipeline == <<eventQueue, retries, failureLog, batch, answers>>

\* the process environment and what config.Load made of it
startup == <<env, config>>

\* the life cycle of the HTTP server, and one call of a function of the
\* program on its own: its name, its arguments and what it returned
process == <<server, probe>>

stores == <<campaigns, redis, sink, dlq, lookup, engine, pipeline, startup, process>>

requests == <<req, pc, ctx, nextCalled, rpcs, event, dedup, pub, resp>>

requests_but_pub == <<req, pc, ctx, nextCalled, rpcs, event, dedup, resp>>

\* Load has not run
NoConfig == [pc |-> "none", err |-> FALSE, cfg |-> <<>>]

\* NewAsyncProcessor: an empty channel, an empty dead letter queue
PipelineIdle ==
    /\ eventQueue = <<>>
    /\ retries = <<>>
    /\ failureLog = {}
    /\ batch = <<>>
    /\ answers = <<>>

\* the process before config.Load, for the runs that do not look at it
NotStarted == env = <<>> /\ config = NoConfig

\* no function is being called on its own
NoProbe == [fn |-> "none", args |-> <<>>, out |-> <<>>]

\* the HTTP server: where it is between ListenAndServe and the return of
\* main, and the requests that had their answer when the signal arrived
Running == [phase |-> "running", answered |-> {}]

\* ListenAndServe is running and no shutdown signal has arrived
Serving == server = Running /\ probe = NoProbe

Init ==
    /\ campaigns = InitialSnapshot
    /\ redis = <<>>
    /\ sink = {}
    /\ dlq = {}
    /\ PipelineIdle
    /\ NotStarted
    /\ Serving
    /\ req = [r \in Reqs |-> NoInput]
    /\ pc = [r \in Reqs |-> "idle"]
    /\ ctx = [r \in Reqs |-> AbsentCtx]
    /\ nextCalled = [r \in Reqs |-> FALSE]
    /\ rpcs = [r \in Reqs |-> 0]
    /\ event = [r \in Reqs |-> NoEvent]
    /\ dedup = [r \in Reqs |-> NoDedup]
    /\ pub = [r \in Reqs |-> NoPub]
    /\ resp = [r \in Reqs |-> NoResp]
    /\ lookup = NoLookup
    /\ table = {}
    /\ admin = NoAdmin
    /\ load = NoLoad

(***************************************************************************)
(* Authentication middleware (internal/auth).                              *)
(***************************************************************************)
Reply(r, status) ==
    /\ resp' = [resp EXCEPT ![r] = [NoResp EXCEPT !.status = status]]
    /\ pc' = [pc EXCEPT ![r] = "done"]

\* a request arrives at a route of main and runs through the middleware
AuthenticationMiddleware(r) ==
    /\ pc[r] = "idle"
    /\ \A q \in Reqs : q < r => pc[q] # "idle"
    /\ \E i \in Inputs :
        /\ ~i.direct
        /\ req' = [req EXCEPT ![r] = i]
        /\ LET authHeader == i.auth
               apiKey == TrimPrefix(authHeader, <<"Bearer ">>)
           IN  IF authHeader = <<>> \/ ~HasPrefix(authHeader, <<"Bearer ">>)
                  \/ ~HasPrefix(apiKey, <<"wdn_">>)
               THEN /\ Reply(r, 401)
                    /\ UNCHANGED <<ctx, nextCalled, rpcs>>
               ELSE \E v \in ValidateApiKeyResponses(apiKey) :
                    \E o \in GetAccountOrganizationsResponses(v.account) :
                        LET res == validateAPIKey(v, o)
                        IN  /\ rpcs' = [rpcs EXCEPT ![r] = IF v.err THEN 1 ELSE 2]
                            /\ IF res.err
                               THEN /\ Reply(r, 401)
                                    /\ UNCHANGED <<ctx, nextCalled>>
                               ELSE /\ ctx' = [ctx EXCEPT ![r] = res.ctx]
                                    /\ nextCalled' = [nextCalled EXCEPT ![r] = TRUE]
                                    /\ pc' = [pc EXCEPT ![r] = "handler"]
                                    /\ UNCHANGED resp
    /\ UNCHANGED <<stores, event, dedup, pub>>

\* a handler is called with a request whose context holds no organization
\* context (a test, a benchmark, a route mounted outside the group)
DirectCall(r) ==
    /\ pc[r] = "idle"
    /\ \A q \in Reqs : q < r => pc[q] # "idle"
    /\ \E i \in Inputs :
        /\ i.direct
        /\ req' = [req EXCEPT ![r] = i]
    /\ pc' = [pc EXCEPT ![r] = "handler"]
    /\ UNCHANGED <<stores, ctx, nextCalled, rpcs, event, dedup, pub, resp>>

(***************************************************************************)
(* Redis, as the dedup check uses it.                                      *)
(***************************************************************************)
\* the store maps every key ever set to whether it is set now (its TTL has
\* not run out) and to the number of times its TTL has run out
Live(store, key) == key \in DOMAIN store /\ store[key].live

Window(store, key) == IF key \in DOMAIN store THEN store[key].expired ELSE 0

\* a store whose set-if-absent is a plain SET: it always reports "set"
SetNXAlwaysSets(store, key) ==
    [ok |-> TRUE,
     store |-> [k \in (DOMAIN store) \cup {key} |->
                   IF k = key
                   THEN [live |-> TRUE, expired |-> Window(store, key)]
                   ELSE store[k]]]

\* SETNX key 1 EX 5: whether it set the key, and the store after
SetNX(store, key) ==
    IF Live(store, key)
    THEN [ok |-> FALSE, store |-> store]
    ELSE [ok |-> TRUE,
          store |-> [k \in (DOMAIN store) \cup {key} |->
                        IF k = key
                        THEN [live |-> TRUE, expired |-> Window(store, key)]
                        ELSE store[k]]]

\* an isDuplicate that fails closed: a store error counts as "duplicate"
isDuplicateFailClosed(clickID, ok, err) ==
    IF clickID = <<>> THEN FALSE
    ELSE IF err THEN TRUE
    ELSE ~ok

\* the result of isDuplicate, given the answer (ok, err) of SetNX
isDuplicate(clickID, ok, err) ==
    IF clickID = <<>> THEN FALSE
    ELSE IF err THEN FALSE
    ELSE ~ok

(***************************************************************************)
(* Handlers (internal/ingestion).                                          *)
(***************************************************************************)
TrafficRoutes == {"/in", "/in/{campaign_id}"}

\* the goroutine of the handler starts: it holds a pointer to the event
Spawn(r) == pub' = [pub EXCEPT ![r] = [NoPub EXCEPT !.pc = "marshal"]]

\* HandleTraffic up to and including "go func(e *Event)"
HandleTrafficCapture(r) ==
    /\ pc[r] = "handler"
    /\ req[r].route \in TrafficRoutes
    /\ IF ~GetOrganizationContextOk(ctx[r])
       THEN /\ Reply(r, 500)
            /\ UNCHANGED <<event, pub>>
       ELSE IF ctx[r].kind = "nil"
       THEN \* orgCtx.OrganizationID on a nil pointer: middleware.Recoverer
            /\ Reply(r, 500)
            /\ UNCHANGED <<event, pub>>
       ELSE /\ event' = [event EXCEPT ![r] =
                   [made |-> TRUE,
                    id |-> Uuid("event", r),
                    org |-> ctx[r].org,
                    click |-> extractClickID(req[r].params, Uuid("click", r)),
                    campaign |-> IF req[r].campaign_id # <<>>
                                 THEN CampaignKey(ctx[r].org, req[r].campaign_id)
                                 ELSE <<>>,
                    flags |-> <<>>,
                    hasBody |-> TRUE,
                    attrCampaign |-> TRUE]]
            /\ Spawn(r)
            /\ pc' = [pc EXCEPT ![r] = "dedup"]
            /\ UNCHANGED resp
    /\ UNCHANGED <<stores, req, ctx, nextCalled, rpcs, dedup>>

\* HandleTraffic: the call of isDuplicate and the append of the fraud flag
HandleTrafficDedup(r) ==
    /\ pc[r] = "dedup"
    /\ \E err \in BOOLEAN, applied \in BOOLEAN :
        LET key == DedupKey(event[r].org, event[r].click)
            res == SetNX(redis, key)
            dup == isDuplicate(event[r].click, res.ok, err)
        IN  /\ (~err => applied)
            /\ redis' = IF event[r].click # <<>> /\ applied THEN res.store ELSE redis
            /\ dedup' = [dedup EXCEPT ![r] =
                   [called |-> event[r].click # <<>>, key |-> key,
                    window |-> Window(redis, key),
                    err |-> err, dup |-> dup]]
            /\ event' = [event EXCEPT ![r].flags =
                   IF dup THEN Append(@, "duplicate_click") ELSE @]
    /\ pc' = [pc EXCEPT ![r] = "route"]
    /\ UNCHANGED <<campaigns, sink, dlq, pipeline, startup, process, lookup, engine, req, ctx, nextCalled, rpcs, pub, resp>>

\* a HandleTraffic that publishes in line: it answers after the publish
HandleTrafficRedirectAfterPublish(r) ==
    /\ pc[r] = "route"
    /\ pub[r].pc = "done"
    /\ \E order \in Orders(DOMAIN campaigns) :
        resp' = [resp EXCEPT ![r] =
            [status |-> 302,
             location |-> GetDestination(event[r].org, event[r].campaign,
                                         req[r].params, campaigns, order),
             pixel |-> FALSE,
             via |-> DestinationCampaign(event[r].org, event[r].campaign,
                                         req[r].params, campaigns, order)]]
    /\ pc' = [pc EXCEPT ![r] = "done"]
    /\ UNCHANGED <<stores, req, ctx, nextCalled, rpcs, event, dedup, pub>>

\* HandleTraffic: GetDestination and http.Redirect
HandleTrafficRedirect(r) ==
    /\ pc[r] = "route"
    /\ \E order \in Orders(DOMAIN campaigns) :
        resp' = [resp EXCEPT ![r] =
            [status |-> 302,
             location |-> GetDestination(event[r].org, event[r].campaign,
                                         req[r].params, campaigns, order),
             pixel |-> FALSE,
             via |-> DestinationCampaign(event[r].org, event[r].campaign,
                                         req[r].params, campaigns, order)]]
    /\ pc' = [pc EXCEPT ![r] = "done"]
    /\ UNCHANGED <<stores, req, ctx, nextCalled, rpcs, event, dedup, pub>>

\* servePixel
ServePixel(r) ==
    /\ resp' = [resp EXCEPT ![r] = [NoResp EXCEPT !.status = 200, !.pixel = TRUE]]
    /\ pc' = [pc EXCEPT ![r] = "done"]

HandlePixel(r) ==
    /\ pc[r] = "handler"
    /\ req[r].route = "/pixel.gif"
    /\ IF ~GetOrganizationContextOk(ctx[r])
       THEN /\ ServePixel(r)
            /\ UNCHANGED <<event, pub>>
       ELSE IF ctx[r].kind = "nil"
       THEN /\ Reply(r, 500)
            /\ UNCHANGED <<event, pub>>
       ELSE /\ event' = [event EXCEPT ![r] =
                   [made |-> TRUE,
                    id |-> Uuid("event", r),
                    org |-> ctx[r].org,
                    click |-> extractClickID(req[r].params, Uuid("click", r)),
                    campaign |-> <<>>,
                    flags |-> <<>>,
                    hasBody |-> FALSE,
                    attrCampaign |-> FALSE]]
            /\ Spawn(r)
            /\ ServePixel(r)
    /\ UNCHANGED <<stores, req, ctx, nextCalled, rpcs, dedup>>

\* a HandlePostback without the click_id check
HandlePostbackUnchecked(r) ==
    /\ pc[r] = "handler"
    /\ req[r].route = "/postback"
    /\ IF ~GetOrganizationContextOk(ctx[r])
       THEN /\ Reply(r, 401)
            /\ UNCHANGED <<event, pub>>
       ELSE IF ctx[r].kind = "nil"
       THEN /\ Reply(r, 500)
            /\ UNCHANGED <<event, pub>>
       ELSE /\ event' = [event EXCEPT ![r] =
                   [made |-> TRUE,
                    id |-> Uuid("event", r),
                    org |-> ctx[r].org,
                    click |-> Get(req[r].params, "click_id"),
                    campaign |-> <<>>,
                    flags |-> <<>>,
                    hasBody |-> TRUE,
                    attrCampaign |-> FALSE]]
            /\ Spawn(r)
            /\ Reply(r, 200)
    /\ UNCHANGED <<stores, req, ctx, nextCalled, rpcs, dedup>>

HandlePostback(r) ==
    /\ pc[r] = "handler"
    /\ req[r].route = "/postback"
    /\ LET clickID == Get(req[r].params, "click_id")
       IN  IF ~GetOrganizationContextOk(ctx[r])
           THEN /\ Reply(r, 401)
                /\ UNCHANGED <<event, pub>>
           ELSE IF clickID = <<>>
           THEN /\ Reply(r, 400)
                /\ UNCHANGED <<event, pub>>
           ELSE IF ctx[r].kind = "nil"
           THEN /\ Reply(r, 500)
                /\ UNCHANGED <<event, pub>>
           ELSE /\ event' = [event EXCEPT ![r] =
                       [made |-> TRUE,
                        id |-> Uuid("event", r),
                        org |-> ctx[r].org,
                        click |-> clickID,
                        campaign |-> <<>>,
                        flags |-> <<>>,
                        hasBody |-> TRUE,
                        attrCampaign |-> FALSE]]
                /\ Spawn(r)
                /\ Reply(r, 200)
    /\ UNCHANGED <<stores, req, ctx, nextCalled, rpcs, dedup>>

(***************************************************************************)
(* The publishing goroutine: the closure of HandleTraffic, publishEvent.   *)
(***************************************************************************)
\* json.Marshal(e): reads the event as it is at this moment.  It fails when
\* the captured body (a json.RawMessage) is not valid JSON.
PublishMarshal(r) ==
    /\ pub[r].pc = "marshal"
    /\ \E bodyIsJSON \in BOOLEAN :
        /\ (~event[r].hasBody => bodyIsJSON)
        /\ pub' = [pub EXCEPT ![r] =
               IF bodyIsJSON
               THEN [pc |-> "publish", data |-> event[r], result |-> "none"]
               ELSE [pc |-> "done", data |-> NoEvent, result |-> "marshal failed"]]
    /\ UNCHANGED <<stores, req, pc, ctx, nextCalled, rpcs, event, dedup, resp>>

\* the Pub/Sub message of a marshaled event
Message(data, e) ==
    [data |-> data,
     event_id |-> e.id, click_id |-> e.click, organization_id |-> e.org,
     campaign_id |-> IF e.attrCampaign THEN e.campaign ELSE <<"<absent>">>]

\* h.pubsub.Publish and result.Get: the topic takes the message, or the
\* publish fails (error, or the 5 s deadline); a failure is only logged
PublishSend(r) ==
    /\ pub[r].pc = "publish"
    /\ \E ok \in BOOLEAN :
        /\ sink' = IF ok THEN sink \cup {Message(pub[r].data, event[r])} ELSE sink
        /\ pub' = [pub EXCEPT ![r].pc = "done",
                              ![r].result = IF ok THEN "published" ELSE "publish failed"]
    /\ UNCHANGED <<campaigns, redis, dlq, pipeline, startup, process, lookup, engine, requests_but_pub>>

(***************************************************************************)
(* Time: the 5 s TTL of a dedup key runs out.                              *)
(***************************************************************************)
Expire(key) ==
    /\ Live(redis, key)
    /\ redis[key].expired < MaxExpiry
    /\ redis' = [redis EXCEPT ![key] = [live |-> FALSE, expired |-> @.expired + 1]]
    /\ UNCHANGED <<campaigns, sink, dlq, pipeline, startup, process, lookup, engine, requests>>

Next ==
    \/ \E r \in Reqs : AuthenticationMiddleware(r)
    \/ \E r \in Reqs : DirectCall(r)
    \/ \E r \in Reqs : HandleTrafficCapture(r)
    \/ \E r \in Reqs : HandleTrafficDedup(r)
    \/ \E r \in Reqs : HandleTrafficRedirect(r)
    \/ \E r \in Reqs : HandlePixel(r)
    \/ \E r \in Reqs : HandlePostback(r)
    \/ \E r \in Reqs : PublishMarshal(r)
    \/ \E r \in Reqs : PublishSend(r)
    \/ \E key \in DOMAIN redis : Expire(key)

Spec == Init /\ [][Next]_vars

(***************************************************************************)
(* RoutingEngine.GetDestination on its own: any snapshot that              *)
(* loadCampaigns can build from rows of the campaign table, any caller.    *)
(***************************************************************************)
\* most rows one snapshot of the routing specification is built from
MaxRows == 2

SrcFacebook == [field |-> "src", op |-> "equals", values |-> << <<"f", "b">> >>,
                priority |-> 5]

Row(org, id, rules) ==
    [org |-> org, id |-> id, status |-> "active", rules |-> rules,
     dest |-> [base |-> "https://example.org/", query |-> <<>>], append |-> FALSE]

\* a campaign with the score of campaign c and a destination of its own
TieRow ==
    [Row(OrgA, <<"b">>, <<SrcFacebook>>) EXCEPT !.dest.base = "https://b.example.org/"]

\* a campaign that appends the inbound parameters to a destination that has
\* a query string of its own
AppendRow ==
    [Row(OrgA, <<"e">>, << [SrcFacebook EXCEPT !.priority = 9] >>) EXCEPT
        !.dest = [base |-> "https://e.example.org/",
                  query |-> << <<"cid", <<"v">> >>, <<"src", <<"o">> >> >>],
        !.append = TRUE]

\* a campaign that appends the inbound parameters to an unparsable destination
BadRow ==
    [Row(OrgSlash, <<"e">>, << [SrcFacebook EXCEPT !.priority = 9] >>) EXCEPT
        !.dest.base = BadURL, !.append = TRUE]

\* rows of the campaign table
RouteRows ==
    { Row(OrgA, <<"c">>, <<SrcFacebook>>),
      Row(OrgA, DefaultId, <<>>),
      Row(OrgA, <<"b", "/", "c">>, <<>>),
      Row(OrgA, <<"b", "/">> \o DefaultId, <<>>),
      Row(OrgSlash, <<"c">>, <<SrcFacebook>>),
      Row(OrgSlash, DefaultId, <<>>),
      TieRow, AppendRow, BadRow }

RECURSIVE RowSeqs(_)
RowSeqs(n) ==
    IF n = 0 THEN {<<>>}
    ELSE LET shorter == RowSeqs(n - 1)
         IN  shorter \cup {Append(q, c) : q \in shorter, c \in RouteRows}

RouteSnapshots == {MapOfRows(q) : q \in RowSeqs(MaxRows)}

RouteOrgs == {OrgA, OrgSlash}

RouteCampaignIDs == {<<>>, <<"c">>, <<"b", "/", "c">>}

RouteParams ==
    { <<>>,
      [n \in {"src"} |-> << <<"f", "b">> >>],
      [n \in {"src"} |-> << <<"f", "b">>, <<"g">> >>],
      [n \in {"src"} |-> << <<"g">>, <<"f", "b">> >>] }

InitRoute ==
    /\ campaigns \in RouteSnapshots
    /\ redis = <<>>
    /\ sink = {}
    /\ dlq = {}
    /\ PipelineIdle
    /\ NotStarted
    /\ Serving
    /\ req = [r \in Reqs |-> NoInput]
    /\ pc = [r \in Reqs |-> "idle"]
    /\ ctx = [r \in Reqs |-> AbsentCtx]
    /\ nextCalled = [r \in Reqs |-> FALSE]
    /\ rpcs = [r \in Reqs |-> 0]
    /\ event = [r \in Reqs |-> NoEvent]
    /\ dedup = [r \in Reqs |-> NoDedup]
    /\ pub = [r \in Reqs |-> NoPub]
    /\ resp = [r \in Reqs |-> NoResp]
    /\ lookup = NoLookup
    /\ table = {}
    /\ admin = NoAdmin
    /\ load = NoLoad

\* one call re.GetDestination(organizationID, campaignID, params)
GetDestinationCall ==
    /\ \E organizationID \in RouteOrgs, campaignID \in RouteCampaignIDs,
          params \in RouteParams, order \in Orders(DOMAIN campaigns) :
        lookup' =
            [called |-> TRUE, pc |-> "done", org |-> organizationID,
             campaignID |-> campaignID, params |-> params, reads |-> <<>>,
             via |-> DestinationCampaign(organizationID, campaignID, params,
                                         campaigns, order),
             dest |-> GetDestination(organizationID, campaignID, params,
                                     campaigns, order)]
    /\ UNCHANGED <<campaigns, redis, sink, dlq, pipeline, startup, process, engine, requests>>

NextRoute == GetDestinationCall

SpecRoute == InitRoute /\ [][NextRoute]_vars

(***************************************************************************)
(* HandleTraffic from the captured event on (dedup check, redirect), for   *)
(* requests of any organizations with any click ids.                       *)
(***************************************************************************)
DedupOrgs == {OrgA, OrgAB}

DedupClicks == {<<"x">>, <<"b", ":", "x">>, <<"y">>}

CapturedEvent(r, org, click) ==
    [made |-> TRUE, id |-> Uuid("event", r), org |-> org, click |-> click,
     campaign |-> <<>>, flags |-> <<>>, hasBody |-> TRUE, attrCampaign |-> TRUE]

InitDedup ==
    /\ campaigns = InitialSnapshot
    /\ redis = <<>>
    /\ sink = {}
    /\ dlq = {}
    /\ PipelineIdle
    /\ NotStarted
    /\ Serving
    /\ pc = [r \in Reqs |-> "dedup"]
    /\ \E orgs \in [Reqs -> DedupOrgs], clicks \in [Reqs -> DedupClicks] :
        /\ req = [r \in Reqs |->
               [route |-> "/in", direct |-> FALSE, auth |-> <<"Bearer ", "wdn_", "k2">>,
                params |-> [n \in {"click_id"} |-> <<clicks[r]>>],
                campaign_id |-> <<>>]]
        /\ ctx = [r \in Reqs |-> OrgCtx(orgs[r])]
        /\ event = [r \in Reqs |-> CapturedEvent(r, orgs[r], clicks[r])]
    /\ nextCalled = [r \in Reqs |-> TRUE]
    /\ rpcs = [r \in Reqs |-> 2]
    /\ dedup = [r \in Reqs |-> NoDedup]
    /\ pub = [r \in Reqs |-> NoPub]
    /\ resp = [r \in Reqs |-> NoResp]
    /\ lookup = NoLookup
    /\ table = {}
    /\ admin = NoAdmin
    /\ load = NoLoad

NextDedup ==
    \/ \E r \in Reqs : HandleTrafficDedup(r)
    \/ \E r \in Reqs : HandleTrafficRedirect(r)
    \/ \E key \in DOMAIN redis : Expire(key)

SpecDedup == InitDedup /\ [][NextDedup]_vars

(***************************************************************************)
(* The authentication middleware on its own: requests with any             *)
(* Authorization header, up to the call of the next handler.               *)
(***************************************************************************)
\* one request is to arrive; the middleware keeps nothing between requests
InitAuth ==
    /\ campaigns = InitialSnapshot
    /\ redis = <<>>
    /\ sink = {}
    /\ dlq = {}
    /\ PipelineIdle
    /\ NotStarted
    /\ Serving
    /\ req = [r \in Reqs |-> NoInput]
    /\ pc = [r \in Reqs |-> IF r = 1 THEN "idle" ELSE "done"]
    /\ ctx = [r \in Reqs |-> AbsentCtx]
    /\ nextCalled = [r \in Reqs |-> FALSE]
    /\ rpcs = [r \in Reqs |-> 0]
    /\ event = [r \in Reqs |-> NoEvent]
    /\ dedup = [r \in Reqs |-> NoDedup]
    /\ pub = [r \in Reqs |-> NoPub]
    /\ resp = [r \in Reqs |-> NoResp]
    /\ lookup = NoLookup
    /\ table = {}
    /\ admin = NoAdmin
    /\ load = NoLoad

NextAuth == \E r \in Reqs : AuthenticationMiddleware(r)

SpecAuth == InitAuth /\ [][NextAuth]_vars

(***************************************************************************)
(* One request that has passed the middleware, with any query string over  *)
(* the click id parameters, through its handler and its publishing         *)
(* goroutine.                                                              *)
(***************************************************************************)
\* the value a request gives to each click id parameter, when it gives one
ClickValue ==
    [n \in Range(ClickParams) |->
        CASE n = "click_id" -> <<"x">>
          [] n = "clickid" -> <<"y">>
          [] n = "cid" -> <<"z">>
          [] n = "transaction_id" -> <<"t">>
          [] OTHER -> <<"u">>]

\* query strings: each click id parameter is absent, present with an empty
\* value, or present with its value; click_id may also come twice, the
\* empty value first
ClickParamMaps ==
    { [n \in {m \in Range(ClickParams) : f[m] # "absent"} |->
          CASE f[n] = "empty" -> << <<>> >>
            [] f[n] = "twice" -> << <<>>, ClickValue[n] >>
            [] OTHER -> << ClickValue[n] >>] :
      f \in {g \in [Range(ClickParams) -> {"absent", "empty", "value", "twice"}] :
                \A m \in Range(ClickParams) : g[m] = "twice" => m = "click_id"} }

HandlerInputs ==
    {i \in [route : Routes, direct : {FALSE}, auth : {<<"Bearer ", "wdn_", "k2">>},
            params : ClickParamMaps, campaign_id : {<<>>, <<"summer">>}] :
        i.campaign_id \in PathCampaigns(i.route)}

\* the same with a query string over click_id alone
SubmitInputs == {i \in HandlerInputs : DOMAIN i.params \subseteq {"click_id"}}

\* the first request is at its handler, with the context the middleware made
\* for it; no other request arrives
InitHandlerWith(inputs) ==
    /\ campaigns = InitialSnapshot
    /\ redis = <<>>
    /\ sink = {}
    /\ dlq = {}
    /\ PipelineIdle
    /\ NotStarted
    /\ Serving
    /\ \E i \in inputs, c \in {OrgCtx(OrgA), NilCtx} :
        /\ req = [r \in Reqs |-> IF r = 1 THEN i ELSE NoInput]
        /\ ctx = [r \in Reqs |-> IF r = 1 THEN c ELSE AbsentCtx]
    /\ pc = [r \in Reqs |-> IF r = 1 THEN "handler" ELSE "idle"]
    /\ nextCalled = [r \in Reqs |-> r = 1]
    /\ rpcs = [r \in Reqs |-> IF r = 1 THEN 2 ELSE 0]
    /\ event = [r \in Reqs |-> NoEvent]
    /\ dedup = [r \in Reqs |-> NoDedup]
    /\ pub = [r \in Reqs |-> NoPub]
    /\ resp = [r \in Reqs |-> NoResp]
    /\ lookup = NoLookup
    /\ table = {}
    /\ admin = NoAdmin
    /\ load = NoLoad

NextHandler ==
    \/ \E r \in Reqs : HandleTrafficCapture(r)
    \/ \E r \in Reqs : HandleTrafficDedup(r)
    \/ \E r \in Reqs : HandleTrafficRedirect(r)
    \/ \E r \in Reqs : HandlePixel(r)
    \/ \E r \in Reqs : HandlePostback(r)
    \/ \E r \in Reqs : PublishMarshal(r)
    \/ \E r \in Reqs : PublishSend(r)

InitHandler == InitHandlerWith(HandlerInputs)

SpecHandler == InitHandler /\ [][NextHandler]_vars

InitSubmit == InitHandlerWith(SubmitInputs)

SpecSubmit == InitSubmit /\ [][NextHandler]_vars

\* the goroutine that serves the request is scheduled until it has answered
\* (the one call it waits for, SetNX, has a deadline of 10 ms); nothing is
\* assumed of the publishing goroutine, which may never get its answer
HandlerFairness ==
    \A r \in Reqs :
        /\ WF_vars(HandleTrafficCapture(r))
        /\ WF_vars(HandleTrafficDedup(r))
        /\ WF_vars(HandleTrafficRedirect(r))
        /\ WF_vars(HandlePixel(r))
        /\ WF_vars(HandlePostback(r))

SpecSubmitLive == SpecSubmit /\ HandlerFairness

(***************************************************************************)
(* The asynchronous pipeline of the architecture (AsyncProcessor,          *)
(* DeadLetterQueue): the handler that submits to it, the workers, the      *)
(* background loop of the dead letter queue.  Events are their ids.        *)
(***************************************************************************)
\* events the handler submits
MaxEvents == 3
\* capacity of eventQueue (workers * 100)
QueueCap == 1
\* dlq.maxRetries and dlq.batchSize
maxRetries == 1
batchSize == 1

\* dlq.Enqueue(event): the queue takes the event, or cannot (its Redis does
\* not answer); it reports nothing to its callers
Enqueue(queue, e, accepted) == IF accepted THEN queue \cup {e} ELSE queue

\* ProcessEvent: the try-send on the channel, the dead letter queue on
\* default; outcome is what became of the event, which ProcessEvent does not
\* return
ProcessEvent(e, accepted) ==
    IF Len(eventQueue) < QueueCap
    THEN [eventQueue |-> Append(eventQueue, e), dlq |-> dlq, outcome |-> "accepted"]
    ELSE [eventQueue |-> eventQueue, dlq |-> Enqueue(dlq, e, accepted),
          outcome |-> IF accepted THEN "shed-to-dlq" ELSE "rejected"]

\* TrafficHandler.HandleTraffic for a request with an organization: steps 5
\* and 6, ProcessEvent and http.Redirect
TrafficHandlerHandleTraffic ==
    /\ Len(answers) < MaxEvents
    /\ \E accepted \in BOOLEAN :
        LET e == Len(answers) + 1
            res == ProcessEvent(e, accepted)
        IN  /\ eventQueue' = res.eventQueue
            /\ dlq' = res.dlq
            /\ retries' = Append(retries, 0)
            /\ answers' = Append(answers, [status |-> 302, outcome |-> res.outcome])
    /\ UNCHANGED <<campaigns, redis, sink, lookup, engine, requests, startup, process,
                   failureLog, batch>>

\* one turn of the loop of a worker: receive, StoreEvent, Enqueue on failure
worker ==
    /\ eventQueue # <<>>
    /\ \E ok \in BOOLEAN, accepted \in BOOLEAN :
        LET e == Head(eventQueue)
        IN  /\ eventQueue' = Tail(eventQueue)
            /\ sink' = IF ok THEN sink \cup {e} ELSE sink
            /\ dlq' = IF ok THEN dlq ELSE Enqueue(dlq, e, accepted)
    /\ UNCHANGED <<campaigns, redis, lookup, engine, requests, startup, process,
                   retries, failureLog, batch, answers>>

\* ProcessQueue: events := dlq.dequeueBatch(dlq.batchSize)
ProcessQueueDequeue ==
    /\ batch = <<>>
    /\ dlq # {}
    /\ \E taken \in SUBSET dlq :
        /\ Cardinality(taken) = IF Cardinality(dlq) < batchSize
                                THEN Cardinality(dlq) ELSE batchSize
        /\ \E o \in Orders(taken) : batch' = o
        /\ dlq' = dlq \ taken
    /\ UNCHANGED <<campaigns, redis, sink, lookup, engine, requests, startup, process,
                   eventQueue, retries, failureLog, answers>>

\* ProcessQueue: the body of the loop over events, for the next event of the
\* batch: the failure log at retries >= maxRetries, else StoreEvent and, when
\* it fails, incrementRetry and requeueWithBackoff
ProcessQueueEvent ==
    /\ batch # <<>>
    /\ LET e == Head(batch)
       IN  IF retries[e] >= maxRetries
           THEN /\ failureLog' = failureLog \cup {e}
                /\ UNCHANGED <<sink, dlq, retries>>
           ELSE \E ok \in BOOLEAN :
                /\ sink' = IF ok THEN sink \cup {e} ELSE sink
                /\ retries' = IF ok THEN retries ELSE [retries EXCEPT ![e] = @ + 1]
                /\ dlq' = IF ok THEN dlq ELSE dlq \cup {e}
                /\ UNCHANGED failureLog
    /\ batch' = Tail(batch)
    /\ UNCHANGED <<campaigns, redis, lookup, engine, requests, startup, process,
                   eventQueue, answers>>

NextPipeline ==
    \/ TrafficHandlerHandleTraffic
    \/ worker
    \/ ProcessQueueDequeue
    \/ ProcessQueueEvent

SpecPipeline == Init /\ [][NextPipeline]_vars

(***************************************************************************)
(* The routing engine over its campaign table: NewRoutingEngine's first    *)
(* load, the refresh loop, the admin mutations, and GetDestination taken   *)
(* one lock section at a time.                                             *)
(***************************************************************************)
\* runs of loadCampaigns (the first one is NewRoutingEngine's)
MaxLoads == 2
\* calls of CreateCampaign / UpdateCampaign / DeleteCampaign
MaxAdminCalls == 2

OrgB == <<"b">>

EngineOrgs == {OrgA, OrgB}

EngineCampaign(org, id, status, rules, base) ==
    [org |-> org, id |-> id, status |-> status, rules |-> rules,
     dest |-> [base |-> base, query |-> <<>>], append |-> FALSE]

\* the campaigns the admin calls are made with
AdminPayloads ==
    { EngineCampaign(OrgA, DefaultId, "active", <<>>, "https://a.example.org/"),
      EngineCampaign(OrgA, DefaultId, "paused", <<>>, "https://a.example.org/old"),
      EngineCampaign(OrgA, <<"c">>, "active", <<SrcFacebook>>, "https://c.example.org/"),
      EngineCampaign(OrgB, <<"c">>, "active", <<SrcFacebook>>, "https://b.example.org/") }

\* the (organizationID, campaignID) pairs DeleteCampaign is called with
AdminTargets == {[NilCampaign EXCEPT !.org = c.org, !.id = c.id] : c \in AdminPayloads}

\* contents of the campaign table when the engine is built
EngineTables ==
    { {},
      { EngineCampaign(OrgA, DefaultId, "active", <<>>, "https://a.example.org/"),
        EngineCampaign(OrgA, <<"c">>, "active", <<SrcFacebook>>, "https://c.example.org/") } }

EngineCampaignIDs == {<<>>, <<"c">>}

EngineParams == {<<>>, [n \in {"src"} |-> << <<"f", "b">> >>]}

InitEngine ==
    /\ campaigns = <<>>
    /\ table \in EngineTables
    /\ admin = NoAdmin
    /\ load = NoLoad
    /\ lookup = NoLookup
    /\ redis = <<>>
    /\ sink = {}
    /\ dlq = {}
    /\ PipelineIdle
    /\ NotStarted
    /\ Serving
    /\ req = [r \in Reqs |-> NoInput]
    /\ pc = [r \in Reqs |-> "idle"]
    /\ ctx = [r \in Reqs |-> AbsentCtx]
    /\ nextCalled = [r \in Reqs |-> FALSE]
    /\ rpcs = [r \in Reqs |-> 0]
    /\ event = [r \in Reqs |-> NoEvent]
    /\ dedup = [r \in Reqs |-> NoDedup]
    /\ pub = [r \in Reqs |-> NoPub]
    /\ resp = [r \in Reqs |-> NoResp]

\* NewRoutingEngine has returned: its loadCampaigns call is over
EngineBuilt == load.n > 1 \/ (load.n = 1 /\ load.pc = "idle")

\* ORDER BY organization_id, campaign_id
RowLess(r1, r2) ==
    \/ LexLess(r1.org, r2.org)
    \/ (r1.org = r2.org /\ LexLess(r1.id, r2.id))

\* the result sets SELECT ... WHERE status = 'active' ORDER BY ... may return
\* (rows that agree on both columns come in any order)
SelectActive(t) ==
    LET rows == {r \in t : r.status = "active"}
    IN  {o \in Orders(rows) : \A i, j \in DOMAIN o : i < j => ~RowLess(o[j], o[i])}

\* the rows of the first n that the loop of loadCampaigns stores: those whose
\* Scan and json.Unmarshal succeed
RECURSIVE Stored(_, _, _)
Stored(rows, n, bad) ==
    IF n = 0 THEN <<>>
    ELSE LET before == Stored(rows, n - 1, bad)
         IN  IF n \in bad THEN before ELSE Append(before, rows[n])

\* loadCampaigns up to the lock: the query, the loop over the rows.  The
\* query may fail; Scan or the parse of the rules may fail on any row (bad);
\* rows.Next may end the loop early on an error (n).
LoadCampaignsQuery ==
    /\ load.pc = "idle"
    /\ load.n < MaxLoads
    /\ \E queryErr \in BOOLEAN :
        IF queryErr
        THEN load' = [load EXCEPT !.failed = TRUE, !.n = @ + 1]
        ELSE \E rows \in SelectActive(table) :
             \E n \in 0..Len(rows) :
             \E bad \in SUBSET (1..n) :
                load' = [pc |-> "built",
                         built |-> MapOfRows(Stored(rows, n, bad)),
                         failed |-> (n < Len(rows) \/ bad # {}),
                         n |-> load.n + 1]
    /\ UNCHANGED <<campaigns, redis, sink, dlq, pipeline, startup, process, lookup, table, admin, requests>>

\* loadCampaigns adding what it has built to the map in place
LoadCampaignsMerge ==
    /\ load.pc = "built"
    /\ campaigns' = [k \in (DOMAIN campaigns) \cup (DOMAIN load.built) |->
                        IF k \in DOMAIN load.built THEN load.built[k] ELSE campaigns[k]]
    /\ load' = [load EXCEPT !.pc = "idle", !.built = <<>>]
    /\ UNCHANGED <<redis, sink, dlq, pipeline, startup, process, lookup, table, admin, requests>>

\* loadCampaigns: re.campaigns = campaigns under the write lock
LoadCampaignsSwap ==
    /\ load.pc = "built"
    /\ campaigns' = load.built
    /\ load' = [load EXCEPT !.pc = "idle", !.built = <<>>]
    /\ UNCHANGED <<redis, sink, dlq, pipeline, startup, process, lookup, table, admin, requests>>

\* a store that replaces the whole map by the one entry
PutCampaignAlone(camps, key, c) == [k \in {key} |-> c]

\* re.campaigns[key] = campaign
PutCampaign(camps, key, c) ==
    [k \in (DOMAIN camps) \cup {key} |-> IF k = key THEN c ELSE camps[k]]

\* delete(re.campaigns, key)
DropCampaign(camps, key) == [k \in (DOMAIN camps) \ {key} |-> camps[k]]

AdminIdle == admin.pc \in {"idle", "returned"} /\ admin.n < MaxAdminCalls /\ EngineBuilt

\* the call is made with the context of organization caller; Exec fails (err)
\* or changes the table to t
AdminExec(op, caller, c, err, t) ==
    /\ table' = IF err THEN table ELSE t
    /\ admin' = IF err
                THEN [NoAdmin EXCEPT !.pc = "returned", !.op = op, !.err = TRUE,
                                     !.result = "error", !.n = admin.n + 1]
                ELSE [NoAdmin EXCEPT !.pc = "stored", !.op = op, !.caller = caller,
                                     !.campaign = c, !.n = admin.n + 1]
    /\ UNCHANGED <<campaigns, redis, sink, dlq, pipeline, startup, process, lookup, load, requests>>

\* CreateCampaign up to the lock: INSERT INTO campaigns
CreateCampaignExec ==
    /\ AdminIdle
    /\ \E caller \in EngineOrgs, c \in AdminPayloads, err \in BOOLEAN :
        AdminExec("create", caller, c, err, table \cup {c})

\* UpdateCampaign up to the lock: ALTER TABLE campaigns UPDATE ... WHERE
\* organization_id = ? AND campaign_id = ?
UpdateCampaignExec ==
    /\ AdminIdle
    /\ \E caller \in EngineOrgs, c \in AdminPayloads, err \in BOOLEAN :
        AdminExec("update", caller, c, err,
                  {IF r.org = c.org /\ r.id = c.id THEN c ELSE r : r \in table})

\* DeleteCampaign up to the lock: ALTER TABLE campaigns UPDATE status = 'deleted'
DeleteCampaignExec ==
    /\ AdminIdle
    /\ \E caller \in EngineOrgs, c \in AdminTargets, err \in BOOLEAN :
        AdminExec("delete", caller, c, err,
                  {IF r.org = c.org /\ r.id = c.id THEN [r EXCEPT !.status = "deleted"] ELSE r :
                      r \in table})

\* CreateCampaign / UpdateCampaign: "Update local cache", return nil
AdminPut ==
    /\ admin.pc = "stored"
    /\ admin.op \in {"create", "update"}
    /\ campaigns' = PutCampaign(campaigns, KeyOf(admin.campaign), admin.campaign)
    /\ admin' = [NoAdmin EXCEPT !.pc = "returned", !.op = admin.op, !.result = "ok",
                                !.n = admin.n]
    /\ UNCHANGED <<redis, sink, dlq, pipeline, startup, process, lookup, table, load, requests>>

\* DeleteCampaign: "Remove from local cache", return nil
AdminDrop ==
    /\ admin.pc = "stored"
    /\ admin.op = "delete"
    /\ campaigns' = DropCampaign(campaigns, KeyOf(admin.campaign))
    /\ admin' = [NoAdmin EXCEPT !.pc = "returned", !.op = admin.op, !.result = "ok",
                                !.n = admin.n]
    /\ UNCHANGED <<redis, sink, dlq, pipeline, startup, process, lookup, table, load, requests>>

\* GetDestination: the explicit lookup (getCampaign under its read lock)
GetDestinationExplicit ==
    /\ lookup.pc = "idle"
    /\ EngineBuilt
    /\ \E organizationID \in EngineOrgs, campaignID \in EngineCampaignIDs,
          params \in EngineParams :
        LET campaign == IF campaignID # <<>>
                        THEN getCampaign(CampaignKey(organizationID, campaignID), campaigns)
                        ELSE NilCampaign
            hit == campaign # NilCampaign /\ campaign.status = "active"
        IN  lookup' =
                [called |-> hit, pc |-> IF hit THEN "done" ELSE "best",
                 org |-> organizationID, campaignID |-> campaignID, params |-> params,
                 reads |-> IF campaignID # <<>> THEN <<campaigns>> ELSE <<>>,
                 via |-> IF hit THEN campaign ELSE NilCampaign,
                 dest |-> IF hit THEN buildDestinationURL(campaign, params)
                          ELSE NoLookup.dest]
    /\ UNCHANGED <<campaigns, redis, sink, dlq, pipeline, startup, process, engine, requests>>

\* GetDestination: findBestMatch under its read lock
GetDestinationBestMatch ==
    /\ lookup.pc = "best"
    /\ \E order \in Orders(DOMAIN campaigns) :
        LET campaign == findBestMatch(lookup.org, lookup.params, campaigns, order)
            hit == campaign # NilCampaign
        IN  lookup' =
                [lookup EXCEPT
                    !.called = hit, !.pc = IF hit THEN "done" ELSE "default",
                    !.reads = Append(@, campaigns),
                    !.via = campaign,
                    !.dest = IF hit THEN buildDestinationURL(campaign, lookup.params) ELSE @]
    /\ UNCHANGED <<campaigns, redis, sink, dlq, pipeline, startup, process, engine, requests>>

\* GetDestination: the default campaign (getCampaign under its read lock),
\* the ultimate fallback
GetDestinationDefault ==
    /\ lookup.pc = "default"
    /\ LET defaultCampaign == getCampaign(CampaignKey(lookup.org, DefaultId), campaigns)
       IN  lookup' =
               [lookup EXCEPT
                   !.called = TRUE, !.pc = "done",
                   !.reads = Append(@, campaigns),
                   !.via = defaultCampaign,
                   !.dest = IF defaultCampaign # NilCampaign
                            THEN buildDestinationURL(defaultCampaign, lookup.params)
                            ELSE [base |-> FallbackURL, query |-> <<>>]]
    /\ UNCHANGED <<campaigns, redis, sink, dlq, pipeline, startup, process, engine, requests>>

NextEngine ==
    \/ LoadCampaignsQuery
    \/ LoadCampaignsSwap
    \/ CreateCampaignExec
    \/ UpdateCampaignExec
    \/ DeleteCampaignExec
    \/ AdminPut
    \/ AdminDrop
    \/ GetDestinationExplicit
    \/ GetDestinationBestMatch
    \/ GetDestinationDefault

SpecEngine == InitEngine /\ [][NextEngine]_vars

\* the same engine with no GetDestination call under way
NextAdmin ==
    \/ LoadCampaignsQuery
    \/ LoadCampaignsSwap
    \/ CreateCampaignExec
    \/ UpdateCampaignExec
    \/ DeleteCampaignExec
    \/ AdminPut
    \/ AdminDrop

SpecAdmin == InitEngine /\ [][NextAdmin]_vars

(***************************************************************************)
(* The readiness probe of main, next to the loads of the routing engine.   *)
(***************************************************************************)
\* GET /ready: outside the authenticated group; it answers 200 "Ready"
\* without looking at any dependency
Ready(r) ==
    /\ pc[r] = "idle"
    /\ \A q \in Reqs : q < r => pc[q] # "idle"
    /\ req' = [req EXCEPT ![r] = [NoInput EXCEPT !.route = "/ready"]]
    /\ Reply(r, 200)
    /\ UNCHANGED <<stores, ctx, nextCalled, rpcs, event, dedup, pub>>

NextReady ==
    \/ LoadCampaignsQuery
    \/ LoadCampaignsSwap
    \/ \E r \in Reqs : Ready(r)

SpecReady == InitEngine /\ [][NextReady]_vars

(***************************************************************************)
(* Configuration (package config): Load over an environment.               *)
(***************************************************************************)
\* the values each variable is set to when it is set; the port as the
\* characters of its text
EnvValues ==
    [TRELLIS_PORT |-> << <<>>, <<"0">>, <<"8", "0">>, <<"6", "5", "5", "3", "6">>,
                         <<"8", "x">>, <<"-", "1">> >>,
     TRELLIS_ENV |-> << <<"production">> >>,
     WARDEN_ADDRESS |-> << <<>>, <<"warden:21382">> >>,
     WARDEN_TLS |-> << <<"true">>, <<"yes">> >>,
     WARDEN_TIMEOUT_SECONDS |-> << <<"3", "s">> >>,
     CLICKHOUSE_HOST |-> << <<>> >>,
     CLICKHOUSE_DATABASE |-> << <<"events">> >>,
     REDIS_URL |-> << <<>> >>,
     PUBSUB_PROJECT_ID |-> << <<"p">> >>,
     GCS_PROJECT_ID |-> << <<"g">> >>]

\* the environments: each variable unset (0) or set to one of its values
Envs ==
    { [n \in {m \in DOMAIN EnvValues : c[m] # 0} |-> EnvValues[n][c[n]]] :
      c \in [TRELLIS_PORT : 0..6, TRELLIS_ENV : 0..1, WARDEN_ADDRESS : 0..2,
             WARDEN_TLS : 0..2, WARDEN_TIMEOUT_SECONDS : 0..1, CLICKHOUSE_HOST : 0..1,
             CLICKHOUSE_DATABASE : 0..1, REDIS_URL : 0..1, PUBSUB_PROJECT_ID : 0..1,
             GCS_PROJECT_ID : 0..1] }

\* os.Getenv: the empty string for a variable that is not set
Getenv(key) == IF key \in DOMAIN env THEN env[key] ELSE <<>>

\* the number a text of decimal digits stands for
RECURSIVE Decimal(_)
Decimal(s) ==
    LET DigitValue(ch) == CHOOSE d \in 0..9 : ToString(d) = ch
    IN  IF s = <<>> THEN 0
        ELSE 10 * Decimal(SubSeq(s, 1, Len(s) - 1)) + DigitValue(s[Len(s)])

\* strconv.Atoi: an optional sign, then one or more decimal digits
Atoi(s) ==
    LET IsDigit(ch) == \E d \in 0..9 : ToString(d) = ch
        signed == s # <<>> /\ s[1] \in {"+", "-"}
        digits == IF signed THEN Tail(s) ELSE s
    IN  IF digits = <<>> \/ \E i \in DOMAIN digits : ~IsDigit(digits[i])
        THEN [err |-> TRUE, value |-> 0]
        ELSE [err |-> FALSE,
              value |-> IF signed /\ s[1] = "-" THEN 0 - Decimal(digits) ELSE Decimal(digits)]

\* strconv.ParseBool
ParseBool(s) ==
    IF s \in {<<"1">>, <<"t">>, <<"T">>, <<"TRUE">>, <<"true">>, <<"True">>}
    THEN [err |-> FALSE, value |-> TRUE]
    ELSE IF s \in {<<"0">>, <<"f">>, <<"F">>, <<"FALSE">>, <<"false">>, <<"False">>}
    THEN [err |-> FALSE, value |-> FALSE]
    ELSE [err |-> TRUE, value |-> FALSE]

getEnvString(key, defaultValue) ==
    IF Getenv(key) # <<>> THEN Getenv(key) ELSE defaultValue

getEnvInt(key, defaultValue) ==
    IF Getenv(key) # <<>> /\ ~Atoi(Getenv(key)).err
    THEN Atoi(Getenv(key)).value
    ELSE defaultValue

getEnvBool(key, defaultValue) ==
    IF Getenv(key) # <<>> /\ ~ParseBool(Getenv(key)).err
    THEN ParseBool(Getenv(key)).value
    ELSE defaultValue

\* the Config that Load builds, with the fields that Validate reads and the
\* other parsed fields of the Warden connection
BuiltConfig ==
    [Port |-> getEnvInt("TRELLIS_PORT", 8080),
     Environment |-> getEnvString("TRELLIS_ENV", <<"development">>),
     WardenAddress |-> getEnvString("WARDEN_ADDRESS", <<"localhost:21382">>),
     WardenTLS |-> getEnvBool("WARDEN_TLS", FALSE),
     WardenTimeoutSeconds |-> getEnvInt("WARDEN_TIMEOUT_SECONDS", 30),
     ClickHouseHost |-> getEnvString("CLICKHOUSE_HOST", <<"localhost">>),
     ClickHouseDatabase |-> getEnvString("CLICKHOUSE_DATABASE", <<"trellis">>),
     RedisURL |-> getEnvString("REDIS_URL", <<"redis://localhost:6379/0">>),
     PubSubProjectID |-> getEnvString("PUBSUB_PROJECT_ID", <<>>),
     GCSProjectID |-> getEnvString("GCS_PROJECT_ID", <<>>)]

\* Config.Validate: whether it returns an error
Validate(c) ==
    \/ c.Port < 1 \/ c.Port > 65535
    \/ c.WardenAddress = <<>>
    \/ c.ClickHouseHost = <<>>
    \/ c.ClickHouseDatabase = <<>>
    \/ c.RedisURL = <<>>
    \/ (c.Environment = <<"production">>
            /\ (c.PubSubProjectID = <<>> \/ c.GCSProjectID = <<>>))

\* Load: (nil, err) when Validate fails, (config, nil) otherwise
Load ==
    /\ config.pc = "none"
    /\ config' = IF Validate(BuiltConfig)
                 THEN [pc |-> "loaded", err |-> TRUE, cfg |-> <<>>]
                 ELSE [pc |-> "loaded", err |-> FALSE, cfg |-> BuiltConfig]
    /\ UNCHANGED <<campaigns, redis, sink, dlq, lookup, engine, pipeline, requests, env, process>>

InitConfig ==
    /\ campaigns = InitialSnapshot
    /\ redis = <<>>
    /\ sink = {}
    /\ dlq = {}
    /\ PipelineIdle
    /\ env \in Envs
    /\ config = NoConfig
    /\ Serving
    /\ req = [r \in Reqs |-> NoInput]
    /\ pc = [r \in Reqs |-> "idle"]
    /\ ctx = [r \in Reqs |-> AbsentCtx]
    /\ nextCalled = [r \in Reqs |-> FALSE]
    /\ rpcs = [r \in Reqs |-> 0]
    /\ event = [r \in Reqs |-> NoEvent]
    /\ dedup = [r \in Reqs |-> NoDedup]
    /\ pub = [r \in Reqs |-> NoPub]
    /\ resp = [r \in Reqs |-> NoResp]
    /\ lookup = NoLookup
    /\ table = {}
    /\ admin = NoAdmin
    /\ load = NoLoad

SpecConfig == InitConfig /\ [][Load]_vars

(***************************************************************************)
(* Functions of the program called on their own.                           *)
(***************************************************************************)
\* everything but the call in hand
but_probe == <<campaigns, redis, sink, dlq, lookup, engine, pipeline, startup,
               requests, server>>

\* the process at rest, about to call fn with one of the argument lists
InitCall(fn, Args) ==
    /\ campaigns = InitialSnapshot
    /\ redis = <<>>
    /\ sink = {}
    /\ dlq = {}
    /\ PipelineIdle
    /\ NotStarted
    /\ server = Running
    /\ probe \in {[fn |-> fn, args |-> a, out |-> <<>>] : a \in Args}
    /\ req = [r \in Reqs |-> NoInput]
    /\ pc = [r \in Reqs |-> "idle"]
    /\ ctx = [r \in Reqs |-> AbsentCtx]
    /\ nextCalled = [r \in Reqs |-> FALSE]
    /\ rpcs = [r \in Reqs |-> 0]
    /\ event = [r \in Reqs |-> NoEvent]
    /\ dedup = [r \in Reqs |-> NoDedup]
    /\ pub = [r \in Reqs |-> NoPub]
    /\ resp = [r \in Reqs |-> NoResp]
    /\ lookup = NoLookup
    /\ table = {}
    /\ admin = NoAdmin
    /\ load = NoLoad

Returns(fn, out) ==
    /\ probe.fn = fn
    /\ probe.out = <<>>
    /\ probe' = [probe EXCEPT !.out = <<out>>]
    /\ UNCHANGED but_probe

(***************************************************************************)
(* The score of one campaign: findBestMatch flattens the parameters and    *)
(* calls calculateMatchScore.                                              *)
(***************************************************************************)
MaxRules == 2

RuleOps == {"equals", "in", "contains", "prefix", "regex"}

RuleValueLists == { <<>>, << <<"a", "b">> >>, << <<"u">>, <<"A">> >> }

Rules ==
    {[field |-> "src", op |-> o, values |-> v, priority |-> p] :
        o \in RuleOps, v \in RuleValueLists, p \in {1, 2}}
    \cup {[field |-> "med", op |-> "equals", values |-> << <<"a", "b">> >>,
           priority |-> 4]}

RuleLists == UNION {[1..n -> Rules] : n \in 0..MaxRules}

\* url.Values of the request: no src, src without a value, src once, src twice
RuleParams ==
    { <<>> } \cup
    {[n \in {"src"} |-> v] :
        v \in { <<>>, << <<"a", "b">> >>, << <<"A", "B">> >>,
                << <<"a", "b", "x">> >>, << <<"x">>, <<"a", "b">> >> }}

ScoreArgs == {<<Row(OrgA, <<"c">>, rules), params>> :
                 rules \in RuleLists, params \in RuleParams}

calculateMatchScoreCall ==
    Returns("calculateMatchScore",
            calculateMatchScore(probe.args[1], FlatParams(probe.args[2])))

SpecRule == InitCall("calculateMatchScore", ScoreArgs) /\ [][calculateMatchScoreCall]_vars

(***************************************************************************)
(* getRealIP, over the two headers and the peer address of a request.      *)
(***************************************************************************)
MaxHeader == 3

\* strings.Index and strings.LastIndex of a one-character string: the number
\* of characters before the match, -1 without one
Index(s, c) ==
    IF \E i \in 1..Len(s) : s[i] = c
    THEN (CHOOSE i \in 1..Len(s) : s[i] = c /\ \A j \in 1..(i - 1) : s[j] # c) - 1
    ELSE -1

LastIndex(s, c) ==
    IF \E i \in 1..Len(s) : s[i] = c
    THEN (CHOOSE i \in 1..Len(s) : s[i] = c /\ \A j \in (i + 1)..Len(s) : s[j] # c) - 1
    ELSE -1

RECURSIVE TrimSpace(_)
TrimSpace(s) ==
    IF s = <<>> THEN s
    ELSE IF s[1] = " " THEN TrimSpace(Tail(s))
    ELSE IF s[Len(s)] = " " THEN TrimSpace(SubSeq(s, 1, Len(s) - 1))
    ELSE s

\* getRealIP preferring X-Real-IP to X-Forwarded-For
getRealIPRealFirst(xff, xri, remoteAddr) ==
    IF xri # <<>> THEN xri
    ELSE IF xff # <<>> THEN TrimSpace(SubSeq(xff, 1, Index(xff \o <<",">>, ",")))
    ELSE remoteAddr

getRealIP(xff, xri, remoteAddr) ==
    IF xff # <<>>
    THEN IF Index(xff, ",") # -1
         THEN TrimSpace(SubSeq(xff, 1, Index(xff, ",")))
         ELSE xff
    ELSE IF xri # <<>> THEN xri
    ELSE IF LastIndex(remoteAddr, ":") # -1
         THEN SubSeq(remoteAddr, 1, LastIndex(remoteAddr, ":"))
         ELSE remoteAddr

\* a header value as the server hands it over: without space at either end
HeaderValues(chars) ==
    {v \in UNION {[1..n -> chars] : n \in 0..MaxHeader} :
        v # <<>> => (v[1] # " " /\ v[Len(v)] # " ")}

\* http.Request.RemoteAddr: "IP:port" for IPv4 and for IPv6, and an address
\* without a port
RemoteAddrs ==
    { <<"4", ":", "p">>, <<"[", ":", ":", "6", "]", ":", "p">>, <<"@">> }

IPArgs == {<<xff, xri, ra>> : xff \in HeaderValues({"1", "2", ",", " "}),
                              xri \in HeaderValues({"3"}) \cap {<<>>, <<"3">>},
                              ra \in RemoteAddrs}

getRealIPCall ==
    Returns("getRealIP", getRealIP(probe.args[1], probe.args[2], probe.args[3]))

SpecIP == InitCall("getRealIP", IPArgs) /\ [][getRealIPCall]_vars

(***************************************************************************)
(* readBody, over request bodies on either side of the byte cap of the     *)
(* capture.                                                                *)
(***************************************************************************)
BodyCap == 3

Bytes == {"x", "y", "z"}

\* http.Request.Body: nil, or a reader of some bytes
Bodies ==
    {[present |-> FALSE, bytes |-> <<>>]} \cup
    {[present |-> TRUE, bytes |-> b] :
        b \in UNION {[1..n -> Bytes] : n \in 0..(BodyCap + 1)}}

\* io.ReadAll reads to the end of the body
readBody(body) == IF ~body.present THEN <<>> ELSE body.bytes

readBodyCall == Returns("readBody", readBody(probe.args[1]))

SpecBody == InitCall("readBody", {<<b>> : b \in Bodies}) /\ [][readBodyCall]_vars

(***************************************************************************)
(* The refresh loop once the campaign table is reachable and at rest.      *)
(***************************************************************************)
\* what the campaign table may hold
RefreshTables == SUBSET AdminPayloads

\* what the admin calls and the loads so far may have left in the snapshot
RefreshSnapshots ==
    {MapOfRows(o) : o \in UNION {Orders(S) : S \in SUBSET AdminPayloads}}

\* the last load has failed; no admin call is under way
InitRefresh ==
    /\ campaigns \in RefreshSnapshots
    /\ table \in RefreshTables
    /\ admin = NoAdmin
    /\ load = [NoLoad EXCEPT !.failed = TRUE, !.n = 1]
    /\ lookup = NoLookup
    /\ redis = <<>>
    /\ sink = {}
    /\ dlq = {}
    /\ PipelineIdle
    /\ NotStarted
    /\ Serving
    /\ req = [r \in Reqs |-> NoInput]
    /\ pc = [r \in Reqs |-> "idle"]
    /\ ctx = [r \in Reqs |-> AbsentCtx]
    /\ nextCalled = [r \in Reqs |-> FALSE]
    /\ rpcs = [r \in Reqs |-> 0]
    /\ event = [r \in Reqs |-> NoEvent]
    /\ dedup = [r \in Reqs |-> NoDedup]
    /\ pub = [r \in Reqs |-> NoPub]
    /\ resp = [r \in Reqs |-> NoResp]

\* refreshCampaigns: the ticker fires and loadCampaigns reads every active row
refreshCampaigns ==
    /\ load.pc = "idle"
    /\ \E rows \in SelectActive(table) :
          load' = [load EXCEPT !.pc = "built", !.built = MapOfRows(rows),
                               !.failed = FALSE]
    /\ UNCHANGED <<campaigns, redis, sink, dlq, pipeline, startup, process, lookup,
                   table, admin, requests>>

NextRefresh == refreshCampaigns \/ LoadCampaignsSwap

\* the ticker fires every 30 seconds for as long as the process runs, and a
\* load that has built its map goes on to install it
SpecRefresh ==
    /\ InitRefresh
    /\ [][NextRefresh]_vars
    /\ WF_vars(refreshCampaigns)
    /\ WF_vars(LoadCampaignsSwap)

(***************************************************************************)
(* The shutdown of main, next to a request and its publishing goroutine.   *)
(***************************************************************************)
but_server == <<campaigns, redis, sink, dlq, lookup, engine, pipeline, startup,
                requests, probe>>

\* main: a signal arrives on sigChan (or the context is cancelled)
Signal ==
    /\ server.phase = "running"
    /\ server' = [phase |-> "draining",
                  answered |-> {r \in Reqs : resp[r].status \in {200, 302}}]
    /\ UNCHANGED but_server

\* main: srv.Shutdown returns, when no handler is running or when its 30 s
\* are over, and main returns; the process ends with its goroutines
Shutdown ==
    /\ server.phase = "draining"
    /\ \E timedOut \in BOOLEAN :
          timedOut \/ \A r \in Reqs : pc[r] \notin {"handler", "dedup", "route"}
    /\ server' = [server EXCEPT !.phase = "stopped"]
    /\ UNCHANGED but_server

NextShutdown ==
    \/ (server.phase # "stopped" /\ NextHandler)
    \/ Signal
    \/ Shutdown

SpecShutdown == InitSubmit /\ [][NextShutdown]_vars

(***************************************************************************)
(* The gates RequirePermission and RequireRole, over the contexts the      *)
(* authentication middleware can leave in a request.                       *)
(***************************************************************************)
MaxList == 2

Permissions == {"read", "write"}

Roles == {"admin", "viewer"}

ListsOf(S) == UNION {[1..n -> S] : n \in 0..MaxList}

\* the context of the request with the role and the permissions of the
\* membership (validateAPIKey)
GateCtxs ==
    {[kind |-> "absent", org |-> <<>>, role |-> "", permissions |-> <<>>],
     [kind |-> "nil", org |-> <<>>, role |-> "", permissions |-> <<>>]} \cup
    {[kind |-> "ok", org |-> OrgA, role |-> r, permissions |-> p] :
        r \in Roles \cup {""}, p \in ListsOf(Permissions)}

\* what a gate does with the request: the status it answers, 0 when it
\* leaves the answer to the next handler, and whether it calls that handler
Refuse(status) == [status |-> status, next |-> FALSE]

Pass == [status |-> 0, next |-> TRUE]

\* RequirePermission letting every context with a permission through
RequirePermissionAny(permission, c) ==
    IF c.kind # "ok" THEN Refuse(500)
    ELSE IF c.permissions # <<>> THEN Pass
    ELSE Refuse(403)

\* a nil *OrganizationContext passes the type assertion; reading its field
\* panics, and middleware.Recoverer answers 500
RequirePermission(permission, c) ==
    IF ~GetOrganizationContextOk(c) THEN Refuse(500)
    ELSE IF c.kind = "nil" THEN Refuse(500)
    ELSE IF \E i \in 1..Len(c.permissions) : c.permissions[i] = permission THEN Pass
    ELSE Refuse(403)

RequireRole(roles, c) ==
    IF ~GetOrganizationContextOk(c) THEN Refuse(500)
    ELSE IF c.kind = "nil" THEN Refuse(500)
    ELSE IF \E i \in 1..Len(roles) : c.role = roles[i] THEN Pass
    ELSE Refuse(403)

RequirePermissionCall ==
    Returns("RequirePermission", RequirePermission(probe.args[1], probe.args[2]))

RequireRoleCall ==
    Returns("RequireRole", RequireRole(probe.args[1], probe.args[2]))

InitGate ==
    \/ InitCall("RequirePermission", Permissions \X GateCtxs)
    \/ InitCall("RequireRole", ListsOf(Roles \cup {"editor"}) \X GateCtxs)

NextGate == RequirePermissionCall \/ RequireRoleCall

SpecGate == InitGate /\ [][NextGate]_vars

(***************************************************************************)
(* Properties.                                                             *)
(***************************************************************************)
Success(r) == resp[r].status \in {200, 302}

Durable(r) == \E m \in sink \cup dlq : m.event_id = event[r].id

\* C1: durable capture.  Once a request that captured an event has been
\* answered with 302 or 200 and its publishing goroutine has ended, the event
\* is in the event sink or in the DLQ / permanent-failure sink.
C1_DurableCapture ==
    \A r \in Reqs :
        (event[r].made /\ pc[r] = "done" /\ Success(r) /\ pub[r].pc = "done")
            => Durable(r)

\* C2: tenant isolation of routing.  GetDestination called for an
\* organization never builds its result from a campaign of another
\* organization.
C2_RoutingTenantIsolation ==
    (lookup.called /\ lookup.via # NilCampaign) => lookup.via.org = lookup.org

\* C3: every event handed to the publisher carries a non-empty organization
\* id, the one of the organization context of its request.
C3_PublishedTenantId ==
    \A r \in Reqs :
        pub[r].pc # "none"
            => /\ event[r].org # <<>>
               /\ ctx[r].kind = "ok"
               /\ event[r].org = ctx[r].org

\* C4: the authentication middleware calls the next handler only with a
\* non-nil organization context; every other outcome of the validation is
\* answered 401 without calling the next handler.
C4_NextOnlyWithContext ==
    \A r \in Reqs :
        (pc[r] # "idle" /\ ~req[r].direct)
            => /\ nextCalled[r] => ctx[r].kind = "ok"
               /\ ~nextCalled[r] => resp[r].status = 401

\* C5: a handler called with a request that carries no organization context
\* replies 401 and does nothing else: no event, no dedup call, no redirect,
\* no pixel, no 200.
C5_NoContextIs401 ==
    \A r \in Reqs :
        (pc[r] = "done" /\ req[r].direct /\ ctx[r].kind = "absent")
            => /\ resp[r].status = 401
               /\ ~resp[r].pixel
               /\ ~event[r].made
               /\ ~dedup[r].called
               /\ pub[r].pc = "none"

SamePair(r1, r2) == event[r1].org = event[r2].org /\ event[r1].click = event[r2].click

Answered(r) == dedup[r].called /\ ~dedup[r].err

\* C6: at most one fresh claim.  Of the requests with the same organization
\* id and click id whose dedup call the store answered within one TTL window
\* of the key, at most one got "fresh"; the others got "duplicate".
C6_AtMostOneFresh ==
    \A r1, r2 \in Reqs :
        (r1 # r2 /\ Answered(r1) /\ Answered(r2) /\ SamePair(r1, r2)
         /\ dedup[r1].window = dedup[r2].window)
            => (dedup[r1].dup \/ dedup[r2].dup)

C6_Witness ==
    \E r1, r2 \in Reqs :
        /\ r1 # r2 /\ Answered(r1) /\ Answered(r2) /\ SamePair(r1, r2)
        /\ dedup[r1].window = dedup[r2].window
        /\ ~dedup[r1].dup /\ dedup[r2].dup

\* C7: dedup keys are tenant-isolated.  A request is reported as a duplicate
\* only when a request of the same organization has made a claim.
C7_DedupTenantIsolation ==
    \A r \in Reqs :
        (dedup[r].called /\ dedup[r].dup)
            => \E q \in Reqs \ {r} : dedup[q].called /\ event[q].org = event[r].org

\* the Locations HandleTraffic can answer request r with
Destinations(r) ==
    {GetDestination(event[r].org, event[r].campaign, req[r].params, campaigns, order) :
        order \in Orders(DOMAIN campaigns)}

\* C8: dedup degrades open.  When the dedup store call fails, the click counts
\* as fresh, no duplicate_click flag is added, no error response is written,
\* and the request is answered with the 302 it gets anyway.
C8_DedupDegradesOpen ==
    \A r \in Reqs :
        (dedup[r].called /\ dedup[r].err)
            => /\ ~dedup[r].dup
               /\ event[r].flags = <<>>
               /\ pub[r].data.flags = <<>>
               /\ resp[r].status \in {0, 302}
               /\ pc[r] = "done" =>
                    (resp[r].status = 302 /\ resp[r].location \in Destinations(r))

C8_Witness ==
    \E r \in Reqs :
        /\ dedup[r].called /\ dedup[r].err
        /\ pc[r] = "done" /\ resp[r].status = 302

HasFlag(flags, f) == \E i \in 1..Len(flags) : flags[i] = f

\* C9: duplicate click.  Of two identical /in requests of one organization
\* with the same click id in one dedup window, both are answered 302 with the
\* same Location, two events are captured, and the event published for the
\* second one carries the fraud flag duplicate_click.
C9_DuplicateClickFlagged ==
    \A r1, r2 \in Reqs :
        (/\ r1 # r2
         /\ req[r1].route \in TrafficRoutes /\ req[r1] = req[r2]
         /\ Answered(r1) /\ Answered(r2) /\ SamePair(r1, r2)
         /\ dedup[r1].window = dedup[r2].window
         /\ ~dedup[r1].dup /\ dedup[r2].dup
         /\ pc[r1] = "done" /\ pc[r2] = "done"
         /\ pub[r1].result = "published" /\ pub[r2].result = "published")
            => /\ resp[r1].status = 302 /\ resp[r2].status = 302
               /\ resp[r1].location = resp[r2].location
               /\ event[r1].id # event[r2].id
               /\ \E m \in sink :
                    m.event_id = event[r2].id /\ HasFlag(m.data.flags, "duplicate_click")

\* C10: handler step order.  The event of a /in request is handed to the
\* publishing goroutine only after the dedup claim and the routing decision of
\* the request are done.
C10_SubmitAfterDedupAndRouting ==
    \A r \in Reqs :
        (req[r].route \in TrafficRoutes /\ pub[r].pc # "none")
            => pc[r] \notin {"dedup", "route"}

\* the campaign (T, campaign_id) of the snapshot that request r names in its
\* path, NilCampaign when the snapshot holds none
NamedCampaign(r) ==
    LET c == getCampaign(CampaignKey(ctx[r].org, req[r].campaign_id), campaigns)
    IN  IF c # NilCampaign /\ c.org = ctx[r].org /\ c.id = req[r].campaign_id
        THEN c ELSE NilCampaign

\* C11: direct campaign hit.  A request to /in/{campaign_id} of tenant T, with
\* an active campaign (T, campaign_id) in the snapshot, is redirected to the
\* destination built from exactly that campaign.
C11_DirectCampaignHit ==
    \A r \in Reqs :
        (/\ pc[r] = "done" /\ resp[r].status = 302
         /\ req[r].route = "/in/{campaign_id}" /\ ctx[r].kind = "ok"
         /\ NamedCampaign(r) # NilCampaign /\ NamedCampaign(r).status = "active")
            => /\ resp[r].via = NamedCampaign(r)
               /\ resp[r].location = buildDestinationURL(NamedCampaign(r), req[r].params)

\* the active campaigns of the tenant that score positively on the request
Scoring(org, params) ==
    {c \in Range(campaigns) :
        /\ c.org = org /\ c.status = "active"
        /\ calculateMatchScore(c, FlatParams(params)) > 0}

\* of those, the one that is to win: highest score, then smallest id
Winners(org, params) ==
    {c \in Scoring(org, params) :
        \A d \in Scoring(org, params) \ {c} :
            LET sc == calculateMatchScore(c, FlatParams(params))
                sd == calculateMatchScore(d, FlatParams(params))
            IN  sc > sd \/ (sc = sd /\ LexLess(c.id, d.id))}

\* every key under the prefix of the tenant holds a campaign of the tenant
OwnKeysOnly(org) ==
    \A k \in DOMAIN campaigns :
        HasPrefix(k, org \o <<"/">>) =>
            (campaigns[k].org = org /\ k = KeyOf(campaigns[k]) /\ ~Contains(campaigns[k].id, <<"/">>))

\* C12: router determinism.  Without a campaign id, the tenant's active
\* campaign with the highest positive score wins, the smallest campaign id
\* among several of that score, so that every evaluation of the request on
\* the snapshot gives the same destination.
C12_RouterDeterminism ==
    (/\ lookup.called /\ lookup.campaignID = <<>>
     /\ OwnKeysOnly(lookup.org)
     /\ Scoring(lookup.org, lookup.params) # {})
        => /\ lookup.via \in Winners(lookup.org, lookup.params)
           /\ \A order \in Orders(DOMAIN campaigns) :
                GetDestination(lookup.org, lookup.campaignID, lookup.params,
                               campaigns, order) = lookup.dest

\* C15: destination construction with append_params.  The query string of
\* the result has the keys of the destination URL and of the request; a key
\* of the request carries the inbound values only, a key of the destination
\* alone keeps its values.
C15_InboundTakesPrecedence ==
    (/\ lookup.called /\ lookup.via # NilCampaign
     /\ lookup.via.append /\ DOMAIN lookup.params # {}
     /\ ~UrlParseFails(lookup.via.dest))
        => LET own == ParseQuery(lookup.via.dest.query)
               res == ParseQuery(lookup.dest.query)
           IN  /\ DOMAIN res = (DOMAIN own) \cup (DOMAIN lookup.params)
               /\ \A n \in DOMAIN res :
                    res[n] = IF n \in DOMAIN lookup.params
                             THEN lookup.params[n] ELSE own[n]

\* the request with every parameter cut down to its first value
FirstValues(params) ==
    [n \in {m \in DOMAIN params : Len(params[m]) > 0} |-> <<params[n][1]>>]

MultiValued(params) == \E n \in DOMAIN params : Len(params[n]) > 1

\* vs occurs in ws as one block
OccursIn(vs, ws) ==
    \E k \in 0..(Len(ws) - Len(vs)) : SubSeq(ws, k + 1, k + Len(vs)) = vs

\* C16: multi-valued parameters.  A request with a parameter of several
\* values is routed to a campaign it is also routed to with the first values
\* alone, and (append_params set, destination URL parsable) all values of
\* each parameter are in the query string of the destination, in order.
C16_MultiValuedParams ==
    (lookup.called /\ MultiValued(lookup.params))
        => /\ lookup.via \in
                {DestinationCampaign(lookup.org, lookup.campaignID,
                                     FirstValues(lookup.params), campaigns, order) :
                    order \in Orders(DOMAIN campaigns)}
           /\ (/\ lookup.via # NilCampaign /\ lookup.via.append
               /\ ~UrlParseFails(lookup.via.dest))
                => \A n \in DOMAIN lookup.params :
                    /\ n \in DOMAIN ParseQuery(lookup.dest.query)
                    /\ OccursIn(lookup.params[n], ParseQuery(lookup.dest.query)[n])

\* C16 as stated, for every destination: all values of each parameter of the
\* request are in the query string of the redirect destination.
C16_AllValuesOnEveryRedirect ==
    (lookup.called /\ MultiValued(lookup.params))
        => \A n \in DOMAIN lookup.params :
            /\ n \in DOMAIN ParseQuery(lookup.dest.query)
            /\ OccursIn(lookup.params[n], ParseQuery(lookup.dest.query)[n])

C16_Witness ==
    /\ lookup.called /\ MultiValued(lookup.params)
    /\ lookup.via = AppendRow
    /\ Len(lookup.dest.query) = 4

\* C14: no-destination outcome.  A /in request of a tenant none of whose
\* campaigns scores positively is redirected through the tenant's campaign
\* "default" when the snapshot has one, and is answered 404 when it has none
\* (the code knows no tenant-configured fallback URL).
C14_NoDestinationIs404 ==
    \A r \in Reqs :
        (/\ pc[r] = "done" /\ req[r].route \in TrafficRoutes
         /\ event[r].made /\ req[r].campaign_id = <<>>
         /\ Scoring(event[r].org, req[r].params) = {})
            => LET def == getCampaign(CampaignKey(event[r].org, DefaultId), campaigns)
               IN  IF def # NilCampaign
                   THEN resp[r].status = 302 /\ resp[r].via = def
                   ELSE resp[r].status = 404

\* C13: only active campaigns route traffic.  Whatever loads and admin calls
\* came before, GetDestination returns no destination built from a campaign
\* whose status is not active.
C13_OnlyActiveCampaignsRoute ==
    (lookup.called /\ lookup.via # NilCampaign) => lookup.via.status = "active"

\* C17: snapshot atomicity per request.  All lookups GetDestination makes for
\* one request read the same snapshot.
C17_OneSnapshotPerRequest ==
    lookup.called =>
        \A i, j \in DOMAIN lookup.reads : lookup.reads[i] = lookup.reads[j]

\* a step that ends a run of loadCampaigns of the refresh loop in which
\* something failed
FailedLoadEnds ==
    \/ load.pc = "idle" /\ load.n >= 1 /\ load'.n = load.n + 1 /\ load'.pc = "idle"
    \/ load.pc = "built" /\ load.n > 1 /\ load.failed /\ load'.pc = "idle"

\* C18: a failed snapshot load leaves the snapshot untouched.  The step that
\* ends a load cycle in which the query, a row or the row iteration failed
\* does not change the snapshot.
C18_FailedLoadKeepsSnapshot ==
    [][FailedLoadEnds => campaigns' = campaigns]_vars

\* a step of an admin call made with the context of one organization and a
\* payload of another
CrossTenantStep ==
    \/ admin'.pc = "stored" /\ admin'.n = admin.n + 1
       /\ admin'.caller # admin'.campaign.org
    \/ admin.pc = "stored" /\ admin'.pc = "returned"
       /\ admin.caller # admin.campaign.org

\* C19: cross-tenant admin rejection.  A CreateCampaign, UpdateCampaign or
\* DeleteCampaign call whose payload names another organization than the
\* caller's changes neither the campaign table nor the snapshot and does not
\* return success.
C19_CrossTenantAdminRejected ==
    [][CrossTenantStep =>
          /\ table' = table
          /\ campaigns' = campaigns
          /\ admin'.result # "ok"]_vars

\* the snapshot an admin call that is past its store write leaves behind
Optimistic(camps, a) ==
    LET key == KeyOf(a.campaign)
    IN  IF a.op = "delete"
        THEN [k \in (DOMAIN camps) \ {key} |-> camps[k]]
        ELSE [k \in (DOMAIN camps) \cup {key} |-> IF k = key THEN a.campaign ELSE camps[k]]

\* C20: optimistic admin mutations.  A call whose store write fails returns
\* an error and leaves the snapshot as it is; a call whose store write
\* succeeds returns only through the step that sets (delete: removes) its own
\* snapshot entry and changes no other entry.
C20_OptimisticAdminMutation ==
    [][admin' # admin =>
          IF admin'.n = admin.n + 1
          THEN /\ campaigns' = campaigns
               /\ admin'.err <=> admin'.result = "error"
               /\ admin'.err <=> admin'.pc = "returned"
               /\ admin'.err => table' = table
          ELSE /\ admin.pc = "stored" /\ admin'.pc = "returned"
               /\ admin'.result = "ok"
               /\ campaigns' = Optimistic(campaigns, admin)
               /\ \A k \in (DOMAIN campaigns) \ {KeyOf(admin.campaign)} :
                    k \in DOMAIN campaigns' /\ campaigns'[k] = campaigns[k]]_vars

C20_Witness ==
    /\ admin.pc = "returned" /\ admin.result = "ok" /\ admin.op = "create"
    /\ Cardinality(DOMAIN campaigns) >= 2


\* C21: submit never blocks the request.  Whatever becomes of the publish
\* (not started, under way, failed, never completed), a request that has
\* reached its handler gets its response: the handler steps are scheduled
\* fairly, the publishing goroutine is not.
C21_SubmitNeverBlocks ==
    \A r \in Reqs : (pc[r] \in {"handler", "dedup", "route"}) ~> (pc[r] = "done")

\* an /in request is answered 302 while its publish has not made a step
C21_Witness ==
    \E r \in Reqs :
        /\ req[r].route \in TrafficRoutes
        /\ pc[r] = "done"
        /\ resp[r].status = 302
        /\ pub[r].pc = "marshal"


\* C22: back-pressure outcome of submit.  An event that found the queue full
\* and went to the dead letter queue is answered normally; the answer is 503
\* exactly when neither the queue nor the dead letter queue took the event,
\* and no other answer is a 5xx.
C22_BackPressure ==
    \A e \in DOMAIN answers :
        /\ answers[e].outcome = "shed-to-dlq" => answers[e].status \in {200, 302}
        /\ answers[e].status = 503 <=> answers[e].outcome = "rejected"
        /\ answers[e].status >= 500 => answers[e].status = 503

\* where an event of the pipeline is
Places(e) ==
    {p \in {"eventQueue", "sink", "dlq", "batch", "failureLog"} :
        CASE p = "eventQueue" -> e \in Range(eventQueue)
          [] p = "sink" -> e \in sink
          [] p = "dlq" -> e \in dlq
          [] p = "batch" -> e \in Range(batch)
          [] OTHER -> e \in failureLog}

\* the background loop has had the event in a batch
Dequeued(e) == retries[e] > 0 \/ e \in failureLog \/ e \in Range(batch)

\* C24: conservation and retry ceiling of the dead letter queue.  An entry
\* the background loop has dequeued is in exactly one place (in the batch
\* in hand, in the sink, back in the queue, in the failure log), and an entry
\* in the failure log has a retry count above the ceiling.
C24_DLQConservation ==
    \A e \in DOMAIN retries :
        /\ Cardinality(Places(e)) <= 1
        /\ Dequeued(e) => Cardinality(Places(e)) = 1
        /\ e \in failureLog => retries[e] > maxRetries


\* C23: worker failure path.  An event whose write to the event sink failed
\* (error or deadline) is in the dead letter queue with a retry count of at
\* least one; it is not discarded.
C23_FailedWriteToDLQ ==
    \A r \in Reqs :
        pub[r].result = "publish failed"
            => \E m \in dlq : m.event_id = event[r].id /\ m.retries >= 1

\* C25: sink outage.  While the event sink rejects writes, every /in request
\* is answered 302 and the event it captured is in the dead letter queue as
\* soon as its write has been rejected (from where the background loop can
\* bring it to the sink when writes are accepted again).
C25_SinkOutage ==
    \A r \in Reqs :
        (req[r].route \in TrafficRoutes /\ ctx[r].kind = "ok" /\ sink = {})
            => /\ pc[r] = "done" => resp[r].status = 302
               /\ pub[r].result = "publish failed"
                    => \E m \in dlq : m.event_id = event[r].id


\* the value of a parameter of a request (of its first occurrence), empty
\* when the request has none
ParamOf(r, n) ==
    IF n \in DOMAIN req[r].params THEN Head(req[r].params[n]) ELSE <<>>

ClickIdOf(r) == ParamOf(r, "click_id")

Aliases == <<"click_id", "clickid", "cid", "transaction_id", "tid">>

\* C27: click id extraction.  The click id of an event captured on /in or
\* /pixel.gif is the value of the first of click_id, clickid, cid,
\* transaction_id, tid whose value is not empty, and a freshly minted id when
\* none has one; it is never empty.
C27_ClickIdExtraction ==
    \A r \in Reqs :
        (event[r].made /\ req[r].route \in TrafficRoutes \cup {"/pixel.gif"})
            => /\ event[r].click # <<>>
               /\ \/ \E i \in DOMAIN Aliases :
                        /\ ParamOf(r, Aliases[i]) # <<>>
                        /\ \A j \in 1..(i - 1) : ParamOf(r, Aliases[j]) = <<>>
                        /\ event[r].click = ParamOf(r, Aliases[i])
                  \/ /\ \A i \in DOMAIN Aliases : ParamOf(r, Aliases[i]) = <<>>
                     /\ event[r].click = Uuid("click", r)

\* an event whose click id comes from tid, behind an empty click_id and an
\* absent cid
C27_Witness ==
    \E r \in Reqs :
        /\ event[r].made
        /\ req[r].route = "/pixel.gif"
        /\ "click_id" \in DOMAIN req[r].params
        /\ "cid" \notin DOMAIN req[r].params
        /\ ParamOf(r, "tid") # <<>>
        /\ event[r].click = ParamOf(r, "tid")


\* no load of the campaigns has put a snapshot in place: none has run, the
\* first one is under way, or the first one failed and left the empty map
SnapshotNeverLoaded ==
    \/ load.n = 0
    \/ (load.n = 1 /\ load.pc = "built")
    \/ (load.n = 1 /\ load.failed /\ campaigns = <<>>)

\* C28: readiness.  A GET /ready answered while no load of the campaign
\* snapshot has succeeded (before the first load, or after the initial load
\* failed) is answered 503.
C28_Readiness ==
    \A r \in Reqs :
        (req[r].route = "/ready" /\ pc[r] = "done" /\ SnapshotNeverLoaded)
            => resp[r].status = 503


\* the values of a variable that are not valid: a port outside 1..65535, a
\* text that is not a number or not a boolean, an empty required address
InvalidValues ==
    [TRELLIS_PORT |-> {<<"0">>, <<"6", "5", "5", "3", "6">>, <<"8", "x">>, <<"-", "1">>},
     TRELLIS_ENV |-> {},
     WARDEN_ADDRESS |-> {<<>>},
     WARDEN_TLS |-> {<<"yes">>},
     WARDEN_TIMEOUT_SECONDS |-> {<<"3", "s">>},
     CLICKHOUSE_HOST |-> {<<>>},
     CLICKHOUSE_DATABASE |-> {},
     REDIS_URL |-> {<<>>},
     PUBSUB_PROJECT_ID |-> {},
     GCS_PROJECT_ID |-> {}]

\* C29: configuration validation.  When a variable of the environment is
\* set to an invalid value, Load returns an error and no Config: it never
\* puts a default in the place of an invalid value.
C29_ConfigValidation ==
    (config.pc = "loaded" /\ \E n \in DOMAIN env : env[n] \in InvalidValues[n])
        => (config.err /\ config.cfg = <<>>)


\* an Authorization header that is missing, is not "Bearer <token>", or
\* whose token does not start with wdn_
Malformed(h) == Len(h) < 2 \/ h[1] # "Bearer " \/ h[2] # "wdn_"

C31_EventCampaignIsRedirectCampaign ==
    \A r \in Reqs :
        (req[r].route \in TrafficRoutes /\ event[r].made /\ pc[r] = "done")
            => event[r].campaign = IF resp[r].via = NilCampaign THEN <<>>
                                   ELSE resp[r].via.id

\* the operator of a rule applied to the value v of the request and one
\* listed value x
Satisfies(op, v, x) ==
    CASE op \in {"equals", "in"} -> v = x
      [] op = "contains" ->
            \E i \in 0..(Len(v) - Len(x)) :
                \A j \in 1..Len(x) : LowerChar(v[i + j]) = LowerChar(x[j])
      [] op = "prefix" -> Len(x) <= Len(v) /\ \A j \in 1..Len(x) : v[j] = x[j]
      [] OTHER -> FALSE

\* rule i of the campaign matches the parameters of the request
Matching(rules, params, i) ==
    /\ rules[i].field \in DOMAIN params
    /\ params[rules[i].field] # <<>>
    /\ \E k \in 1..Len(rules[i].values) :
          Satisfies(rules[i].op, params[rules[i].field][1], rules[i].values[k])

RECURSIVE PrioritySum(_, _)
PrioritySum(rules, S) ==
    IF S = {} THEN 0
    ELSE LET i == CHOOSE j \in S : TRUE
         IN  rules[i].priority + PrioritySum(rules, S \ {i})

FirstEntry(s, e) ==
    \E a \in 0..Len(s) : \E b \in a..Len(s) :
        /\ e = SubSeq(s, a + 1, b)
        /\ \A i \in 1..Len(e) : e[i] # ","
        /\ e # <<>> => (e[1] # " " /\ e[Len(e)] # " ")
        /\ \A i \in 1..a : s[i] = " "
        /\ \E c \in b..Len(s) :
              /\ \A i \in (b + 1)..c : s[i] = " "
              /\ (c = Len(s) \/ s[c + 1] = ",")

\* a is the address of the peer "a:port"; an address without a port is itself
PeerAddress(ra, a) ==
    IF \E i \in 1..Len(ra) : ra[i] = ":"
    THEN \E port \in {SubSeq(ra, i, Len(ra)) : i \in 2..(Len(ra) + 1)} :
            /\ \A i \in 1..Len(port) : port[i] # ":"
            /\ ra = a \o <<":">> \o port
    ELSE a = ra

C34_BodyBounded ==
    (probe.fn = "readBody" /\ probe.out # <<>>) =>
        LET bytes == probe.args[1].bytes
        IN  /\ Len(probe.out[1]) <= BodyCap
            /\ probe.out[1] =
                  SubSeq(bytes, 1, IF Len(bytes) < BodyCap THEN Len(bytes) ELSE BodyCap)

\* the active rows of the campaign table under key k
ActiveRows(k) == {r \in table : r.status = "active" /\ KeyOf(r) = k}

\* the snapshot holds under key k what the campaign table holds: a row of the
\* table, or nothing where the table has no active row
InStep(k) ==
    IF k \in DOMAIN campaigns THEN campaigns[k] \in table ELSE ActiveRows(k) = {}

\* C35: when loadCampaigns installs a map it has built without a failure,
\* every key under which the snapshot held what the campaign table holds
\* still does: a campaign created or updated since the map was read is not
\* removed or reverted, a deleted one does not come back.
C35_RefreshKeepsNewer ==
    [][(load.pc = "built" /\ ~load.failed /\ load'.pc = "idle") =>
          \A k \in (DOMAIN campaigns) \cup (DOMAIN campaigns') :
              InStep(k) =>
                  IF ActiveRows(k) = {} THEN k \notin DOMAIN campaigns'
                  ELSE k \in DOMAIN campaigns' /\ campaigns'[k] \in ActiveRows(k)]_vars

\* the snapshot is the set of active campaigns of the table, each under its key
SnapshotIsActiveSet ==
    /\ \A k \in DOMAIN campaigns :
          campaigns[k] \in table /\ campaigns[k].status = "active" /\ KeyOf(campaigns[k]) = k
    /\ \A r \in table :
          r.status = "active" => (KeyOf(r) \in DOMAIN campaigns /\ campaigns[KeyOf(r)] = r)

C37_ShutdownKeepsEvents ==
    server.phase = "stopped" =>
        \A r \in server.answered : event[r].made => pub[r].pc = "done"

=============================================================================
